---- MODULE Spec2Model ----
(***************************************************************************)
(* Emergency dispatch core of Roan1982/ova (Django).                       *)
(*                                                                         *)
(* The persisted state is the relational tables Emergency, Vehicle, Agent, *)
(* EmergencyDispatch and CalculatedRoute; the handlers are the views and   *)
(* model methods that plan, assign, track and resolve incidents.           *)
(*                                                                         *)
(*   Spec      every handler runs to completion (one request at a time).   *)
(*   SpecConc  requests run on their own task; the database is in          *)
(*             autocommit mode (no transaction.atomic, no                   *)
(*             select_for_update in the handlers), so every ORM statement  *)
(*             commits on its own and tasks interleave between statements. *)
(***************************************************************************)
EXTENDS Integers, Sequences, FiniteSets, TLC

\* ------------------------------------------------------------------ bounds
NumIncidents == 2
MaxRoutes == 6
MaxRequests == 4
MaxConcRequests == 3

\* ------------------------------------------------- program constants
ROUTING_VEHICLE_CANDIDATES == 6
ROUTING_AGENT_CANDIDATES == 4
ROUTING_MAX_RESULTS == 6
AutoPersistLimit == 5
PersistMinRoutes == 12
FarDistanceM == 20000

\* ------------------------------------------------------- static catalog
Incidents == 1..NumIncidents
Forces == {"Policía", "SAME", "Bomberos", "Tránsito"}
NoForce == "None"
Null == 0

\* The fleet: two patrol cars, one ambulance; one police agent, one SAME agent
\* (the fleet of core/tests.py).
Vehicles == {1, 2, 3}
Agents == {1, 2}

VehicleForce(v) == IF v = 3 THEN "SAME" ELSE "Policía"
VehicleType(v) == IF v = 3 THEN "Ambulancia" ELSE "Patrulla"
AgentForce(a) == IF a = 2 THEN "SAME" ELSE "Policía"
\* current_lat / current_lon (lat / lon for agents) are set for the whole fleet
VehicleLocated(v) == v \in Vehicles
AgentLocated(a) == a \in Agents

\* str.lower(): the accent of "Policía" and "Tránsito" is kept
Lower(s) ==
  CASE s = "Policía" -> "policía"
    [] s = "SAME" -> "same"
    [] s = "Bomberos" -> "bomberos"
    [] s = "Tránsito" -> "tránsito"
    [] s = "Patrulla" -> "patrulla"
    [] s = "Ambulancia" -> "ambulancia"
    [] OTHER -> s

\* Route length in metres from a resource to an incident, and the duration
\* the routing fallback derives from it: (distance / 1000) / 22 * 3600 s.
DistanceM(kind, id, e) ==
  IF kind = "vehicle"
    THEN CASE id = 1 -> (IF e = 1 THEN 1100 ELSE 2200)
           [] id = 2 -> (IF e = 1 THEN 1650 ELSE 1100)
           [] OTHER  -> (IF e = 1 THEN 16500 ELSE 22000)
    ELSE CASE id = 1 -> (IF e = 1 THEN 1100 ELSE 2750)
           [] OTHER  -> (IF e = 1 THEN 3300 ELSE 550)

DurationS(kind, id, e) == (DistanceM(kind, id, e) * 9) \div 55

\* ------------------------------------------------------------- sequences
Range(s) == {s[i] : i \in DOMAIN s}

Take(s, n) == SubSeq(s, 1, IF n < Len(s) THEN n ELSE Len(s))

\* the final order: assigned force first (by distance), then score / multiplier
RankLess(a, b) ==
  \/ a.assigned /\ ~b.assigned
  \/ /\ a.assigned = b.assigned
     /\ IF a.assigned THEN a.dist < b.dist
        ELSE a.base * b.mult < b.base * a.mult

\* the strict order of each sort key of the planner
SortLess(key, a, b) ==
  CASE key = "multiplier" -> a.mult > b.mult
    [] key = "priority_score" -> a.base < b.base
    [] OTHER -> RankLess(a, b)

\* sorted(), list.sort(): stable
StableSort(s, key) ==
  LET Less(a, b) == SortLess(key, a, b)
      Before(j, i) == Less(s[j], s[i]) \/ (~Less(s[i], s[j]) /\ j < i)
      Rank(i) == Cardinality({j \in DOMAIN s : Before(j, i)}) + 1
  IN  [k \in 1..Len(s) |-> s[CHOOSE i \in DOMAIN s : Rank(i) = k]]

\* the elements of a set of integers in increasing order (rows come back in pk order)
RECURSIVE Ascending(_)
Ascending(S) ==
  IF S = {} THEN <<>>
  ELSE LET m == CHOOSE x \in S : \A y \in S : x <= y
       IN  <<m>> \o Ascending(S \ {m})

\* ---------------------------------------------------------------- state
VARIABLES
  em,       \* Emergency rows, by pk
  veh,      \* Vehicle rows: status and target
  ag,       \* Agent rows: status and target
  disp,     \* EmergencyDispatch rows in pk order
  routes,   \* CalculatedRoute rows in pk order
  served,   \* requests accepted so far
  last,     \* the request served last: handler, incident, and, for a route
            \* calculation, whether the incident had active routes then
  task,     \* per worker: the request in progress, its position and its locals
  tracked,  \* the active routes the last real_time_tracking request read
  waves,    \* traffic_manager.active_green_waves, by wave key
  clock,    \* datetime.now() / time.time(), in seconds
  optimizer,  \* the RouteOptimizer in use: its keys and its backoff deadline
  throttled,  \* per routing provider: when it last answered HTTP 429 (-1: never)
  answer    \* what the last call of a routing, green-wave or triage function returned

vars == <<em, veh, ag, disp, routes, served, last, task, tracked,
          waves, clock, optimizer, throttled, answer>>

\* the state the request handlers do not touch
aside == <<clock, optimizer, throttled, answer>>

\* keyword groups of _infer_required_forces that a description hits
Descriptions == {{"seguridad"}, {"choque"}}
\* what classify_with_ai answers: code, type and the summed "cantidad" of the
\* recommended resources (0: no recommendation list)
IAResults ==
  {[codigo |-> "rojo", tipo |-> "policial", cantidad |-> 0],
   [codigo |-> "rojo", tipo |-> "medico", cantidad |-> 1],
   [codigo |-> "amarillo", tipo |-> "otro", cantidad |-> 0],
   [codigo |-> "verde", tipo |-> "otro", cantidad |-> 0]}

NoEmergency ==
  [exists |-> FALSE, description |-> {}, located |-> FALSE, code |-> "",
   priority |-> 0, onda_verde |-> FALSE, status |-> "pendiente",
   resolved_at |-> FALSE, assigned_force |-> NoForce, assigned_vehicle |-> Null]

DB == [em |-> em, veh |-> veh, ag |-> ag, disp |-> disp, routes |-> routes, waves |-> waves]

\* the external routing providers in the order get_best_route tries them
Providers == <<"Mapbox", "OpenRoute", "OSRM", "GraphHopper">>
ProviderSet == {Providers[i] : i \in DOMAIN Providers}
Never == -1

\* no RouteOptimizer built yet, nothing returned yet
NoOptimizer == [keys |-> {}, offline |-> TRUE, openroute_rate_limited_until |-> 0]
NoAnswer == [call |-> "none"]

\* ----------------------------------------------------- Emergency.save
\* variant: a save that sets the priority of a code red but not its green wave
SaveNormalizePriorityOnly(m) ==
  IF m.code = "rojo" THEN [m EXCEPT !.priority = 10]
  ELSE IF m.code = "amarillo" THEN [m EXCEPT !.priority = 5]
  ELSE [m EXCEPT !.priority = 1]

SaveNormalize(m) ==
  IF m.code = "rojo" THEN [m EXCEPT !.onda_verde = TRUE, !.priority = 10]
  ELSE IF m.code = "amarillo" THEN [m EXCEPT !.priority = 5]
  ELSE [m EXCEPT !.priority = 1]

\* tipo -> primary force (classify_code and process_emergency use the same map)
TipoForce(tipo) ==
  CASE tipo = "bomberos" -> "Bomberos"
    [] tipo = "medico" -> "SAME"
    [] tipo = "policial" -> "Policía"
    [] OTHER -> NoForce

\* classify_code: the code and, in memory, the primary force the classifier suggests
ClassifyCode(m, ia) ==
  LET f == TipoForce(ia.tipo)
  IN  [m EXCEPT !.code = ia.codigo,
                !.assigned_force = IF f # NoForce THEN f ELSE @,
                !.priority = IF ia.codigo = "rojo" THEN 10
                             ELSE IF ia.codigo = "amarillo" THEN 5 ELSE 1]

\* ------------------------------------------- calculate_emergency_routes
ResourcePriority(af, code, key) ==
  IF af # NoForce
    THEN CASE Lower(af) = "same" ->
                (CASE key = "same" -> 5 [] key = "ambulancia" -> 4
                   [] key = "policia" -> 1 [] key = "bomberos" -> 1 [] OTHER -> 0)
           [] Lower(af) = "policía" ->
                (CASE key = "policía" -> 5 [] key = "patrulla" -> 4
                   [] key = "policia" -> 4 [] key = "same" -> 1
                   [] key = "bomberos" -> 1 [] OTHER -> 0)
           [] Lower(af) = "bomberos" ->
                (CASE key = "bomberos" -> 4 [] key = "camion" -> 4
                   [] key = "policia" -> 1 [] key = "same" -> 1 [] OTHER -> 0)
           [] OTHER ->
                (CASE key = Lower(af) -> 5 [] key = "policia" -> 2
                   [] key = "same" -> 2 [] key = "bomberos" -> 2 [] OTHER -> 0)
    ELSE IF code = "rojo"
      THEN (CASE key = "same" -> 4 [] key = "ambulancia" -> 4
              [] key = "policia" -> 2 [] key = "bomberos" -> 2 [] OTHER -> 0)
      ELSE (CASE key = "policia" -> 2 [] key = "same" -> 2
              [] key = "bomberos" -> 2 [] OTHER -> 0)

\* statuses a vehicle may have to be a candidate
StatusList(af) ==
  IF af # NoForce /\ Lower(af) = "policía"
    THEN {"disponible", "en_ruta", "ocupado"}
    ELSE {"disponible"}

\* _calculate_priority_score, times 20: duration * type weight * far penalty
BaseScore(kind, id, e, type) ==
  DurationS(kind, id, e)
    * (IF type = "ambulancia" THEN 8 ELSE IF type = "bomberos" THEN 9 ELSE 10)
    * (IF DistanceM(kind, id, e) > FarDistanceM THEN 3 ELSE 2)

Candidate(kind, id, e, force, type, mult, af) ==
  [kind |-> kind, id |-> id, force |-> force, mult |-> mult,
   dist |-> DistanceM(kind, id, e), dur |-> DurationS(kind, id, e),
   base |-> BaseScore(kind, id, e, type),
   assigned |-> af # NoForce /\ Lower(force) = Lower(af)]

\* primary-force candidates first, then the others by multiplier, capped
SelectCandidates(cands, af, cap) ==
  LET primary == SelectSeq(cands, LAMBDA c : af # NoForce /\ c.force = af)
      secondary == StableSort(SelectSeq(cands, LAMBDA c : ~(af # NoForce /\ c.force = af)),
                              "multiplier")
      first == Take(primary, cap)
  IN  first \o Take(secondary, cap - Len(first))

CalculateEmergencyRoutes(m, e, db) ==
  IF ~m.located THEN <<>>
  ELSE
    LET af == m.assigned_force
        VMult(v) == ResourcePriority(af, m.code, Lower(VehicleForce(v)))
                    + ResourcePriority(af, m.code, Lower(VehicleType(v)))
        AMult(a) == ResourcePriority(af, m.code, Lower(AgentForce(a)))
        vs == Ascending({v \in Vehicles : /\ db.veh[v].status \in StatusList(af)
                                          /\ VehicleLocated(v)
                                          /\ VMult(v) > 0})
        as == Ascending({a \in Agents : /\ db.ag[a].status = "disponible"
                                        /\ AgentLocated(a)
                                        /\ AMult(a) > 0})
        vcands == [i \in DOMAIN vs |->
                     Candidate("vehicle", vs[i], e, VehicleForce(vs[i]),
                               Lower(VehicleType(vs[i])), VMult(vs[i]), af)]
        acands == [i \in DOMAIN as |->
                     Candidate("agent", as[i], e, AgentForce(as[i]),
                               Lower(AgentForce(as[i])), AMult(as[i]), af)]
        available == SelectCandidates(vcands, af, ROUTING_VEHICLE_CANDIDATES)
                     \o SelectCandidates(acands, af, ROUTING_AGENT_CANDIDATES)
        \* find_optimal_assignments: sorted by the base score
        optimal == StableSort(available, "priority_score")
    IN  Take(StableSort(optimal, "final"), ROUTING_MAX_RESULTS)

\* ------------------------------------------------ ensure_multi_dispatch
InferRequiredForces(description) ==
  LET required ==
        (IF "fuego" \in description THEN {"Bomberos"} ELSE {})
        \cup (IF "choque" \in description THEN {"Policía", "Tránsito", "SAME"} ELSE {})
        \cup (IF "medica" \in description THEN {"SAME"} ELSE {})
        \cup (IF "seguridad" \in description THEN {"Policía"} ELSE {})
  IN  IF required = {} THEN {"Policía"} ELSE required

\* Bomberos > SAME > Policía > Tránsito
PriorityOrder == <<"Bomberos", "SAME", "Policía", "Tránsito">>

\* target_lat / target_lon of a resource sent to incident e
Target(m, e) == IF m.located THEN e ELSE Null

DispatchIdx(db, e, f) ==
  {i \in DOMAIN db.disp : db.disp[i].emergency = e /\ db.disp[i].force = f}

Min(S) == CHOOSE x \in S : \A y \in S : x <= y

\* variant: the first candidate, whatever its ETA
FirstCandidate(kind, cands, e) == Min(cands)

\* the strict "eta_seconds < best_eta" keeps the first of equal candidates
Nearest(kind, cands, e) ==
  CHOOSE x \in cands : \A y \in cands :
    \/ DurationS(kind, x, e) < DurationS(kind, y, e)
    \/ DurationS(kind, x, e) = DurationS(kind, y, e) /\ x <= y

FindBestAvailableVehicle(m, e, force, db) ==
  IF ~m.located
    THEN LET c == {v \in Vehicles : VehicleForce(v) = force /\ db.veh[v].status = "disponible"}
         IN  IF c = {} THEN Null ELSE Min(c)
    ELSE LET c == {v \in Vehicles : /\ VehicleForce(v) = force
                                    /\ db.veh[v].status = "disponible"
                                    /\ VehicleLocated(v)}
         IN  IF c = {} THEN Null ELSE Nearest("vehicle", c, e)

FindBestAvailableAgent(m, e, force, db) ==
  IF ~m.located
    THEN LET c == {a \in Agents : AgentForce(a) = force /\ db.ag[a].status = "disponible"}
         IN  IF c = {} THEN Null ELSE Min(c)
    ELSE LET c == {a \in Agents : /\ AgentForce(a) = force
                                  /\ db.ag[a].status = "disponible"
                                  /\ AgentLocated(a)}
         IN  IF c = {} THEN Null ELSE Nearest("agent", c, e)

EnRoute(m, e) == [status |-> "en_ruta", target |-> Target(m, e)]

\* the body of "if created:": the new dispatch gets the best vehicle and agent
CreateDispatch(m, e, f, db) ==
  LET v == FindBestAvailableVehicle(m, e, f, db)
      a == FindBestAvailableAgent(m, e, f, db)
  IN  [db EXCEPT
         !.veh = IF v # Null THEN [@ EXCEPT ![v] = EnRoute(m, e)] ELSE @,
         !.ag = IF a # Null THEN [@ EXCEPT ![a] = EnRoute(m, e)] ELSE @,
         !.disp = Append(@, [emergency |-> e, force |-> f, vehicle |-> v,
                             agent |-> a, status |-> "despachado"])]

RECURSIVE EnsureLoop(_, _, _, _)
EnsureLoop(names, m, e, st) ==
  IF names = <<>> THEN st
  ELSE IF DispatchIdx(st.db, e, Head(names)) = {}
    THEN EnsureLoop(Tail(names), m, e,
                    [db |-> CreateDispatch(m, e, Head(names), st.db), created |-> TRUE])
    ELSE EnsureLoop(Tail(names), m, e, st)

\* the primary summary: force and vehicle of the first dispatch in priority order
SetSummary(m, e, db) ==
  LET hits == SelectSeq(PriorityOrder, LAMBDA n : DispatchIdx(db, e, n) # {})
  IN  IF m.assigned_force # NoForce \/ hits = <<>>
        THEN [mem |-> m, db |-> db]
        ELSE LET d == db.disp[Min(DispatchIdx(db, e, Head(hits)))]
                 m2 == SaveNormalize([m EXCEPT !.assigned_force = d.force,
                                               !.assigned_vehicle = d.vehicle])
             IN  [mem |-> m2,
                  db |-> [db EXCEPT !.em[e].assigned_force = d.force,
                                    !.em[e].assigned_vehicle = d.vehicle]]

RequiredNames(m) ==
  SelectSeq(PriorityOrder, LAMBDA n : n \in InferRequiredForces(m.description))

\* after the loop: pendiente -> asignada when a dispatch was created, then the summary
PromoteAndSummarize(m, e, created, db) ==
  LET promote == created /\ m.status = "pendiente"
      m1 == IF promote THEN SaveNormalize([m EXCEPT !.status = "asignada"]) ELSE m
      db1 == IF promote THEN [db EXCEPT !.em[e].status = "asignada"] ELSE db
  IN  SetSummary(m1, e, db1)

EnsureMultiDispatch(m, e, db) ==
  LET st == EnsureLoop(RequiredNames(m), m, e, [db |-> db, created |-> FALSE])
  IN  PromoteAndSummarize(m, e, st.created, st.db)

\* ---------------------------------------- _persist_routes_for_emergency
ActiveOf(e, r) == r.emergency = e /\ r.status = "activa"

RouteRow(e, resource) ==
  [emergency |-> e, resource |-> resource, status |-> "activa", completed_at |-> FALSE,
   calculated_at |-> clock]

\* the first occurrence of every element, in order (persisted_ids)
FirstOccurrences(s) ==
  LET idx == Ascending({i \in DOMAIN s : \A j \in 1..(i - 1) : s[j] # s[i]})
  IN  [k \in DOMAIN idx |-> s[idx[k]]]

ResourceId(a) == <<a.kind, a.id>>

DeleteActiveRoutes(e, rows) == SelectSeq(rows, LAMBDA r : ~ActiveOf(e, r))

\* resource ids of the incident's dispatch vehicles with a known position
DispatchVehicleIds(e, db) ==
  LET ds == SelectSeq(db.disp, LAMBDA d : /\ d.emergency = e
                                          /\ d.vehicle # Null
                                          /\ VehicleLocated(d.vehicle))
  IN  [i \in DOMAIN ds |-> <<"vehicle", ds[i].vehicle>>]

\* variant: only the planner's rows are stored
PersistRoutesPlannedOnly(m, e, assignments, include_dispatches, max_routes, db) ==
  IF ~m.located THEN db
  ELSE
    LET planned == [i \in DOMAIN Take(assignments, max_routes) |-> ResourceId(assignments[i])]
        ids == FirstOccurrences(planned)
    IN  [db EXCEPT !.routes = DeleteActiveRoutes(e, @)
                              \o [i \in DOMAIN ids |-> RouteRow(e, ids[i])]]

\* variant: the rows are added without deleting the active ones first
PersistRoutesKeepActive(m, e, assignments, include_dispatches, max_routes, db) ==
  IF ~m.located THEN db
  ELSE
    LET planned == [i \in DOMAIN Take(assignments, max_routes) |-> ResourceId(assignments[i])]
        ids == FirstOccurrences(planned \o (IF include_dispatches
                                              THEN DispatchVehicleIds(e, db) ELSE <<>>))
    IN  [db EXCEPT !.routes = @ \o [i \in DOMAIN ids |-> RouteRow(e, ids[i])]]

PersistRoutesForEmergency(m, e, assignments, include_dispatches, max_routes, db) ==
  IF ~m.located THEN db
  ELSE
    LET planned == [i \in DOMAIN Take(assignments, max_routes) |-> ResourceId(assignments[i])]
        ids == FirstOccurrences(planned \o (IF include_dispatches
                                              THEN DispatchVehicleIds(e, db) ELSE <<>>))
    IN  [db EXCEPT !.routes = DeleteActiveRoutes(e, @)
                              \o [i \in DOMAIN ids |-> RouteRow(e, ids[i])]]

\* ----------------------------------------------------- process_emergency
MaxAssignments(code, cantidad) ==
  IF cantidad > 0 THEN (IF cantidad > 1 THEN cantidad ELSE 1)
  ELSE IF code = "rojo" THEN 3 ELSE IF code = "amarillo" THEN 2 ELSE 1

\* step 1: the classifier's answer overwrites code, priority, onda_verde and,
\* for a known type, the primary force (in memory)
ApplyClassification(m, ia) ==
  [m EXCEPT !.code = ia.codigo,
            !.priority = IF ia.codigo = "rojo" THEN 10
                         ELSE IF ia.codigo = "amarillo" THEN 5 ELSE 1,
            !.onda_verde = (ia.codigo = "rojo"),
            !.assigned_force = IF TipoForce(ia.tipo) # NoForce THEN TipoForce(ia.tipo) ELSE @]

\* "Persistir rutas calculadas": active rows deleted, the first five stored
StoreTopRoutes(e, assignments, db) ==
  LET top == Take(assignments, AutoPersistLimit)
  IN  [db EXCEPT !.routes = DeleteActiveRoutes(e, @)
                            \o [i \in DOMAIN top |-> RouteRow(e, ResourceId(top[i]))]]

\* one turn of the assignment loop (idx = 0 when first)
AssignResource(m, e, a, first, db) ==
  IF a.kind = "vehicle"
    THEN LET v == a.id
             f == VehicleForce(v)
             hits == DispatchIdx(db, e, f)
         IN  [mem |-> IF first
                        THEN [m EXCEPT !.assigned_vehicle = v,
                                       !.assigned_force = IF @ \in {NoForce, f} THEN f ELSE @]
                        ELSE m,
              db |-> [db EXCEPT
                        !.veh[v] = EnRoute(m, e),
                        !.disp = IF hits = {}
                                   THEN Append(@, [emergency |-> e, force |-> f, vehicle |-> v,
                                                   agent |-> Null, status |-> "en_ruta"])
                                   ELSE [@ EXCEPT ![Min(hits)].vehicle = v,
                                                  ![Min(hits)].status = "en_ruta"]]]
  ELSE IF a.kind = "agent"
    THEN [mem |-> m, db |-> [db EXCEPT !.ag[a.id] = EnRoute(m, e)]]
  ELSE [mem |-> m, db |-> db]

RECURSIVE AssignLoop(_, _, _, _)
AssignLoop(todo, e, first, st) ==
  IF todo = <<>> THEN st
  ELSE AssignLoop(Tail(todo), e, FALSE, AssignResource(st.mem, e, Head(todo), first, st.db))

ProcessEmergency(e, ia, db) ==
  LET m1 == ApplyClassification(db.em[e], ia)
      ra == CalculateEmergencyRoutes(m1, e, db)
      n == MaxAssignments(m1.code, ia.cantidad)
      st == IF ra # <<>>
              THEN LET got == AssignLoop(Take(ra, n), e, TRUE,
                                         [mem |-> m1, db |-> StoreTopRoutes(e, ra, db)])
                   IN  [got EXCEPT !.mem.status = "asignada"]
              ELSE EnsureMultiDispatch(m1, e, db)
      db2 == PersistRoutesForEmergency(st.mem, e, ra, TRUE,
                                       IF Len(ra) > PersistMinRoutes THEN Len(ra)
                                       ELSE PersistMinRoutes, st.db)
  IN  [db2 EXCEPT !.em[e] = SaveNormalize(st.mem)]

\* ------------------------------------------------------ create_emergency
CreateEmergency(e, description, located, ia, db) ==
  LET m0 == [NoEmergency EXCEPT !.exists = TRUE, !.description = description,
                                !.located = located]
      m1 == SaveNormalize(ClassifyCode(m0, ia))
      db1 == [db EXCEPT !.em[e] = m1]
      st == IF m1.code \in {"rojo", "amarillo"}
              THEN EnsureMultiDispatch(m1, e, db1)
              ELSE [mem |-> m1, db |-> db1]
      ra == CalculateEmergencyRoutes(st.mem, e, st.db)
  IN  IF located /\ ra # <<>> THEN StoreTopRoutes(e, ra, st.db) ELSE st.db

\* --------------------------------------------------- calculate_routes_api
FallbackAssignment(e) == [kind |-> "fallback", id |-> e]

PlannerOutput(e, db) ==
  LET ra == CalculateEmergencyRoutes(db.em[e], e, db)
  IN  IF ra = <<>> THEN <<FallbackAssignment(e)>> ELSE ra

CalculateRoutesApi(e, db) ==
  IF db.em[e].status = "resuelta" THEN db
  ELSE LET out == PlannerOutput(e, db)
       IN  PersistRoutesForEmergency(db.em[e], e, out, TRUE,
                                     IF Len(out) > ROUTING_MAX_RESULTS THEN Len(out)
                                     ELSE ROUTING_MAX_RESULTS, db)

\* ----------------------------------------------- assign_optimal_resources
RECURSIVE AssignOnly(_, _, _, _)
AssignOnly(todo, e, first, st) ==
  IF todo = <<>> THEN st
  ELSE LET a == Head(todo)
           next ==
             IF a.kind = "vehicle"
               THEN [mem |-> IF first /\ st.mem.assigned_vehicle = Null
                               THEN [st.mem EXCEPT !.assigned_vehicle = a.id,
                                                   !.assigned_force = VehicleForce(a.id)]
                               ELSE st.mem,
                     db |-> [st.db EXCEPT !.veh[a.id] = EnRoute(st.mem, e)]]
               ELSE [mem |-> st.mem, db |-> [st.db EXCEPT !.ag[a.id] = EnRoute(st.mem, e)]]
       IN  AssignOnly(Tail(todo), e, FALSE, next)

AssignOptimalResources(e, db) ==
  LET m == db.em[e]
      ra == CalculateEmergencyRoutes(m, e, db)
      n == MaxAssignments(IF m.code = "" THEN "verde" ELSE m.code, 0)
      st == AssignOnly(Take(ra, n), e, TRUE, [mem |-> m, db |-> db])
      m2 == IF st.mem.status = "pendiente" THEN [st.mem EXCEPT !.status = "asignada"]
            ELSE st.mem
  IN  IF ra = <<>> THEN db ELSE [st.db EXCEPT !.em[e] = SaveNormalize(m2)]

\* ------------------------------------------------------ Emergency.resolve
Release(row) == [row EXCEPT !.status = "disponible"]

\* variant: a release that frees the vehicle and leaves the agent as it is
ReleaseDispatchVehicleOnly(d, db) ==
  [db EXCEPT
     !.veh = IF d.vehicle # Null THEN [@ EXCEPT ![d.vehicle] = Release(@)] ELSE @]

ReleaseDispatch(d, db) ==
  [db EXCEPT
     !.veh = IF d.vehicle # Null THEN [@ EXCEPT ![d.vehicle] = Release(@)] ELSE @,
     !.ag = IF d.agent # Null THEN [@ EXCEPT ![d.agent] = Release(@)] ELSE @]

RECURSIVE ReleaseAll(_, _)
ReleaseAll(ds, db) ==
  IF ds = <<>> THEN db ELSE ReleaseAll(Tail(ds), ReleaseDispatch(Head(ds), db))

CompleteRoutes(e, rows) ==
  [i \in DOMAIN rows |->
     IF ActiveOf(e, rows[i])
       THEN [rows[i] EXCEPT !.status = "completada", !.completed_at = TRUE]
       ELSE rows[i]]

FinishDispatches(e, ds) ==
  [i \in DOMAIN ds |->
     IF ds[i].emergency = e THEN [ds[i] EXCEPT !.status = "finalizado"] ELSE ds[i]]

Resolve(e, db) ==
  LET freed == ReleaseAll(SelectSeq(db.disp, LAMBDA d : d.emergency = e), db)
  IN  [freed EXCEPT !.disp = FinishDispatches(e, @),
                    !.routes = CompleteRoutes(e, @),
                    !.em[e].status = "resuelta",
                    !.em[e].resolved_at = TRUE]

\* --------------------------------------------------- TrafficLightManager
GREEN_MAJOR == 45
GREEN_SECONDARY == 30
GREEN_LEAD == 5
WAVE_TTL == 1800
AVG_SPEED_KMH == 50

\* find_intersections_on_route: the catalog intersections along the straight
\* path from a vehicle to an incident, nearest first. The first patrol car
\* passes a major and a secondary one, the second a major one, the ambulance none.
IntersectionsOnRoute(v, e) ==
  CASE v = 1 -> <<[id |-> "9julio_corrientes", type |-> "major", distance_from_start |-> 500],
                  [id |-> "florida_corrientes", type |-> "secondary", distance_from_start |-> 1000]>>
    [] v = 2 -> <<[id |-> "9julio_corrientes", type |-> "major", distance_from_start |-> 750]>>
    [] OTHER -> <<>>

\* distance_m / speed_ms, speed_ms = avg_speed_kmh * 1000 / 3600
TravelSeconds(distance_m) == (distance_m * 36) \div (AVG_SPEED_KMH * 10)

\* variant: the green starts at the arrival
TimingWithoutLead(its, now) ==
  [i \in DOMAIN its |->
     LET arrival == now + TravelSeconds(its[i].distance_from_start)
         priority == IF its[i].type = "major" THEN 1 ELSE 2
     IN  [intersection |-> its[i].id,
          arrival_time |-> arrival,
          green_start |-> arrival,
          green_end |-> arrival + (IF priority = 1 THEN GREEN_MAJOR ELSE GREEN_SECONDARY),
          priority |-> priority]]

CalculateGreenWaveTiming(its, now) ==
  [i \in DOMAIN its |->
     LET arrival == now + TravelSeconds(its[i].distance_from_start)
         priority == IF its[i].type = "major" THEN 1 ELSE 2
     IN  [intersection |-> its[i].id,
          arrival_time |-> arrival,
          green_start |-> arrival - GREEN_LEAD,
          green_end |-> arrival + (IF priority = 1 THEN GREEN_MAJOR ELSE GREEN_SECONDARY),
          priority |-> priority]]

\* dict assignment
Put(f, k, x) == [y \in DOMAIN f \cup {k} |-> IF y = k THEN x ELSE f[y]]

\* TrafficLightManager.activate_green_wave: the registry afterwards and the result
TrafficManagerActivate(reg, key, v, e, now) ==
  LET its == IntersectionsOnRoute(v, e)
      timing == CalculateGreenWaveTiming(its, now)
  IN  IF its = <<>>
        THEN [registry |-> reg,
              result |-> [success |-> FALSE, intersections |-> <<>>, timing |-> <<>>]]
        ELSE [registry |-> Put(reg, key, [created_at |-> now, vehicle |-> v, timing |-> timing]),
              result |-> [success |-> TRUE,
                          intersections |-> [i \in DOMAIN its |-> its[i].id],
                          timing |-> timing]]

\* variant: a wave is kept up to and including the TTL
ActiveGreenWavesInclusive(reg, now) ==
  [k \in {x \in DOMAIN reg : now - reg[x].created_at <= WAVE_TTL} |-> reg[k]]

\* get_active_green_waves: the waves younger than the TTL; the registry is
\* replaced by them
ActiveGreenWaves(reg, now) ==
  [k \in {x \in DOMAIN reg : now - reg[x].created_at < WAVE_TTL} |-> reg[k]]

\* get_intersection_status: the incidents' waves that have the intersection
IntersectionStatus(reg, id, now) ==
  LET active == ActiveGreenWaves(reg, now)
  IN  [active_emergencies |->
         {k \in DOMAIN active :
            \E i \in DOMAIN active[k].timing : active[k].timing[i].intersection = id},
       registry |-> active]

\* ------------------------------------------- activate_emergency_green_wave
\* the resources the wave is activated for: the incident's assigned vehicle
\* and the vehicles of its dispatches, with a known position
GreenWaveResources(e, db) ==
  (IF db.em[e].assigned_vehicle # Null /\ VehicleLocated(db.em[e].assigned_vehicle)
     THEN {<<"vehicle", db.em[e].assigned_vehicle>>} ELSE {})
  \cup {<<"dispatch", i>> : i \in {j \in DOMAIN db.disp :
                                     /\ db.disp[j].emergency = e
                                     /\ db.disp[j].vehicle # Null
                                     /\ VehicleLocated(db.disp[j].vehicle)}}

\* the calls of activate_green_wave in order: key and vehicle
GreenWaveCalls(e, db) ==
  LET ds == Ascending({x[2] : x \in {y \in GreenWaveResources(e, db) : y[1] = "dispatch"}})
  IN  (IF <<"vehicle", db.em[e].assigned_vehicle>> \in GreenWaveResources(e, db)
         THEN <<[key |-> <<e, "vehicle", db.em[e].assigned_vehicle>>,
                 vehicle |-> db.em[e].assigned_vehicle]>>
         ELSE <<>>)
      \o [i \in DOMAIN ds |-> [key |-> <<e, "dispatch", ds[i]>>,
                                vehicle |-> db.disp[ds[i]].vehicle]]

RECURSIVE RegisterAll(_, _, _, _)
RegisterAll(calls, e, reg, now) ==
  IF calls = <<>> THEN reg
  ELSE RegisterAll(Tail(calls), e,
                   TrafficManagerActivate(reg, Head(calls).key, Head(calls).vehicle, e, now).registry,
                   now)

\* variant: the activation succeeds only when a wave was registered
GreenWaveSuccessRegistered(e, db) ==
  /\ db.em[e].code = "rojo"
  /\ db.em[e].located
  /\ \E x \in GreenWaveResources(e, db) :
       IntersectionsOnRoute(IF x[1] = "vehicle" THEN x[2] ELSE db.disp[x[2]].vehicle, e) # <<>>

GreenWaveSuccess(e, db) ==
  /\ db.em[e].code = "rojo"
  /\ db.em[e].located
  /\ GreenWaveResources(e, db) # {}

\* activate_emergency_green_wave: the result and the registry afterwards
ActivateEmergencyGreenWave(e, db, now) ==
  IF ~(db.em[e].code = "rojo" /\ db.em[e].located)
    THEN [success |-> FALSE, results |-> <<>>, registry |-> db.waves]
    ELSE LET calls == GreenWaveCalls(e, db)
         IN  [success |-> GreenWaveSuccess(e, db),
              results |-> [i \in DOMAIN calls |->
                             [key |-> calls[i].key,
                              vehicle |-> calls[i].vehicle,
                              result |-> TrafficManagerActivate(db.waves, calls[i].key,
                                                                calls[i].vehicle, e, now).result]],
              registry |-> RegisterAll(calls, e, db.waves, now)]

\* ------------------------------------------------ activate_green_wave_api
ActivateGreenWave(e, db) ==
  LET r == ActivateEmergencyGreenWave(e, db, clock)
  IN  [db EXCEPT !.waves = r.registry,
                 !.em[e].onda_verde = IF r.success THEN TRUE ELSE @]

\* ---------------------------------------------------------- workers
Workers == {1, 2}

\* locals of a request in progress: the in-memory Emergency (mem), the
\* planner's answer (plan), the rest of the loop being run (todo), the row
\* get_or_create found (hit), idx == 0 (first), created_any (created), and
\* the active resource ids the last delete removed (old)
Idle ==
  [pc |-> "idle", e |-> Null, mem |-> NoEmergency, plan |-> <<>>, todo |-> <<>>,
   n |-> 0, hit |-> Null, first |-> FALSE, created |-> FALSE, old |-> {}]

\* ------------------------------------------------------------ Spec
\* the tables after a statement, or after a whole handler
Commit(db) ==
  /\ Len(db.routes) <= MaxRoutes
  /\ em' = db.em
  /\ veh' = db.veh
  /\ ag' = db.ag
  /\ disp' = db.disp
  /\ routes' = db.routes
  /\ waves' = db.waves

\* a request is taken in
Accept(op, e) ==
  /\ served < MaxRequests
  /\ served' = served + 1
  /\ last' = [op |-> op, e |-> e,
              planned |-> /\ op = "calculate_routes"
                          /\ \E i \in DOMAIN routes : ActiveOf(e, routes[i])]
  /\ UNCHANGED aside

\* a handler that runs from its first statement to its last
Install(op, e, db) ==
  /\ Accept(op, e)
  /\ Commit(db)
  /\ UNCHANGED <<task, tracked>>

\* empty tables, the whole fleet available, no request in progress
InitRequests ==
  /\ em = [e \in Incidents |-> NoEmergency]
  /\ veh = [v \in Vehicles |-> [status |-> "disponible", target |-> Null]]
  /\ ag = [a \in Agents |-> [status |-> "disponible", target |-> Null]]
  /\ disp = <<>>
  /\ routes = <<>>
  /\ served = 0
  /\ last = [op |-> "none", e |-> Null, planned |-> FALSE]
  /\ task = [p \in Workers |-> Idle]
  /\ tracked = {}
  /\ waves = <<>>

Init ==
  /\ InitRequests
  /\ clock = 0
  /\ optimizer = NoOptimizer
  /\ throttled = [p \in ProviderSet |-> Never]
  /\ answer = NoAnswer

\* the next primary key
NextId(e) == ~em[e].exists /\ \A x \in Incidents : x < e => em[x].exists

DoCreate ==
  \E e \in Incidents, d \in Descriptions, l \in BOOLEAN, ia \in IAResults :
    NextId(e) /\ Install("create", e, CreateEmergency(e, d, l, ia, DB))

DoProcess ==
  \E e \in Incidents, ia \in IAResults :
    em[e].exists /\ Install("process", e, ProcessEmergency(e, ia, DB))

DoCalculateRoutes ==
  \E e \in Incidents : em[e].exists /\ Install("calculate_routes", e, CalculateRoutesApi(e, DB))

DoAssign ==
  \E e \in Incidents : em[e].exists /\ Install("assign", e, AssignOptimalResources(e, DB))

DoResolve ==
  \E e \in Incidents : em[e].exists /\ Install("resolve", e, Resolve(e, DB))

DoGreenWave ==
  \E e \in Incidents : em[e].exists /\ Install("green_wave", e, ActivateGreenWave(e, DB))

Next ==
  \/ DoCreate
  \/ DoProcess
  \/ DoCalculateRoutes
  \/ DoAssign
  \/ DoResolve
  \/ DoGreenWave

Spec == Init /\ [][Next]_vars

\* ------------------------------------------------------------ SpecConc
\* Each ORM statement commits on its own; a worker runs one statement per step.

\* worker p runs a statement: the tables after it, and where p stands then
Statement(p, rec, db) ==
  /\ Commit(db)
  /\ task' = [task EXCEPT ![p] = rec]
  /\ UNCHANGED <<served, last, tracked>>
  /\ UNCHANGED aside

ActiveIds(e, rows) ==
  {rows[i].resource : i \in {j \in DOMAIN rows : ActiveOf(e, rows[j])}}

\* process_emergency: load, classify, plan
StartProcess(p) ==
  \E e \in Incidents, ia \in IAResults :
    /\ task[p].pc = "idle"
    /\ em[e].exists
    /\ served < MaxConcRequests
    /\ Accept("process", e)
    /\ LET m == ApplyClassification(em[e], ia)
           ra == CalculateEmergencyRoutes(m, e, DB)
       IN  task' = [task EXCEPT ![p] =
                      [Idle EXCEPT !.pc = IF ra # <<>> THEN "store_delete" ELSE "ensure_get",
                                   !.e = e, !.mem = m, !.plan = ra,
                                   !.n = MaxAssignments(m.code, ia.cantidad),
                                   !.todo = IF ra # <<>> THEN <<>> ELSE RequiredNames(m)]]
    /\ UNCHANGED <<em, veh, ag, disp, routes, tracked, waves>>

\* CalculatedRoute.objects.filter(emergency, status='activa').delete()
StoreDelete(p) ==
  LET t == task[p]
      top == Take(t.plan, AutoPersistLimit)
  IN  /\ t.pc = "store_delete"
      /\ Statement(p, [t EXCEPT !.pc = "store_insert",
                                !.old = ActiveIds(t.e, routes),
                                !.todo = [i \in DOMAIN top |-> ResourceId(top[i])]],
                   [DB EXCEPT !.routes = DeleteActiveRoutes(t.e, @)])

\* one CalculatedRoute.objects.create(...) of the loop over route_assignments[:5]
StoreInsert(p) ==
  LET t == task[p]
  IN  /\ t.pc = "store_insert"
      /\ Statement(p, IF Tail(t.todo) = <<>>
                        THEN [t EXCEPT !.pc = "assign", !.todo = Take(t.plan, t.n),
                                       !.first = TRUE]
                        ELSE [t EXCEPT !.todo = Tail(@)],
                   [DB EXCEPT !.routes = Append(@, RouteRow(t.e, Head(t.todo)))])

\* the assignment loop moves on; after its last turn status = 'asignada' in memory
AfterAssign(t) ==
  IF Tail(t.todo) = <<>>
    THEN [t EXCEPT !.pc = "persist_delete", !.todo = <<>>, !.first = FALSE,
                   !.hit = Null, !.mem.status = "asignada"]
    ELSE [t EXCEPT !.pc = "assign", !.todo = Tail(@), !.first = FALSE, !.hit = Null]

\* resource_obj.save(update_fields=...) and the SELECT of get_or_create;
\* two matching rows make get() raise and the request ends there
AssignSave(p) ==
  LET t == task[p]
      a == Head(t.todo)
      hits == DispatchIdx(DB, t.e, VehicleForce(a.id))
  IN  /\ t.pc = "assign"
      /\ IF a.kind = "vehicle"
           THEN Statement(p, IF Cardinality(hits) > 1 THEN Idle
                             ELSE [t EXCEPT !.pc = "assign_put",
                                            !.hit = IF hits = {} THEN Null ELSE Min(hits)],
                          [DB EXCEPT !.veh[a.id] = EnRoute(t.mem, t.e)])
           ELSE Statement(p, AfterAssign(t), [DB EXCEPT !.ag[a.id] = EnRoute(t.mem, t.e)])

\* the INSERT of get_or_create when the SELECT found nothing, and dispatch.save(...)
AssignPut(p) ==
  LET t == task[p]
      v == Head(t.todo).id
      f == VehicleForce(v)
      m == IF t.first
             THEN [t.mem EXCEPT !.assigned_vehicle = v,
                                !.assigned_force = IF @ \in {NoForce, f} THEN f ELSE @]
             ELSE t.mem
  IN  /\ t.pc = "assign_put"
      /\ Statement(p, AfterAssign([t EXCEPT !.mem = m]),
                   [DB EXCEPT !.disp =
                      IF t.hit = Null
                        THEN Append(@, [emergency |-> t.e, force |-> f, vehicle |-> v,
                                        agent |-> Null, status |-> "en_ruta"])
                        ELSE [@ EXCEPT ![t.hit].vehicle = v, ![t.hit].status = "en_ruta"]])

\* ensure_multi_dispatch moves on to the next force
AfterEnsure(t) ==
  IF Tail(t.todo) = <<>>
    THEN [t EXCEPT !.pc = "ensure_finish", !.todo = <<>>]
    ELSE [t EXCEPT !.pc = "ensure_get", !.todo = Tail(@)]

\* the SELECT of EmergencyDispatch.objects.get_or_create(emergency, force)
EnsureGet(p) ==
  LET t == task[p]
      hits == DispatchIdx(DB, t.e, Head(t.todo))
  IN  /\ t.pc = "ensure_get"
      /\ Statement(p, IF Cardinality(hits) > 1 THEN Idle
                      ELSE IF hits = {} THEN [t EXCEPT !.pc = "ensure_create"]
                      ELSE AfterEnsure(t),
                   DB)

\* its INSERT and the body of "if created:"
EnsureCreate(p) ==
  LET t == task[p]
  IN  /\ t.pc = "ensure_create"
      /\ Statement(p, AfterEnsure([t EXCEPT !.created = TRUE]),
                   CreateDispatch(t.mem, t.e, Head(t.todo), DB))

EnsureFinish(p) ==
  LET t == task[p]
      r == PromoteAndSummarize(t.mem, t.e, t.created, DB)
  IN  /\ t.pc = "ensure_finish"
      /\ Statement(p, [t EXCEPT !.pc = "persist_delete", !.mem = r.mem], r.db)

\* _persist_routes_for_emergency: the early return, or the delete
PersistDelete(p) ==
  LET t == task[p]
      top == Take(t.plan, IF Len(t.plan) > PersistMinRoutes THEN Len(t.plan)
                          ELSE PersistMinRoutes)
      planned == FirstOccurrences([i \in DOMAIN top |-> ResourceId(top[i])])
  IN  /\ t.pc = "persist_delete"
      /\ IF ~t.mem.located
           THEN Statement(p, [t EXCEPT !.pc = "save"], DB)
           ELSE Statement(p, [t EXCEPT !.pc = IF planned = <<>> THEN "persist_dispatch"
                                              ELSE "persist_insert",
                                       !.old = ActiveIds(t.e, routes),
                                       !.todo = planned],
                          [DB EXCEPT !.routes = DeleteActiveRoutes(t.e, @)])

\* the loop over assignments[:max_routes]; its creates are taken together
\* (a loop of creates taken one by one is StoreInsert)
PersistInsert(p) ==
  LET t == task[p]
  IN  /\ t.pc = "persist_insert"
      /\ Statement(p, [t EXCEPT !.pc = "persist_dispatch", !.todo = <<>>],
                   [DB EXCEPT !.routes = @ \o [i \in DOMAIN t.todo |->
                                                 RouteRow(t.e, t.todo[i])]])

\* "if include_dispatches:": a row for every dispatch vehicle not persisted yet
PersistDispatch(p) ==
  LET t == task[p]
      persisted == {ResourceId(t.plan[i]) : i \in DOMAIN t.plan}
      extra == SelectSeq(FirstOccurrences(DispatchVehicleIds(t.e, DB)),
                         LAMBDA id : id \notin persisted)
  IN  /\ t.pc = "persist_dispatch"
      /\ Statement(p, [t EXCEPT !.pc = "save"],
                   [DB EXCEPT !.routes = @ \o [i \in DOMAIN extra |-> RouteRow(t.e, extra[i])]])

\* emergency.save(): every column from the object loaded at the start
SaveEmergency(p) ==
  LET t == task[p]
  IN  /\ t.pc = "save"
      /\ Statement(p, Idle, [DB EXCEPT !.em[t.e] = SaveNormalize(t.mem)])

\* resolve_emergency: load the incident; the dispatch queryset is read once
StartResolve(p) ==
  \E e \in Incidents :
    LET all == [i \in DOMAIN disp |-> [i |-> i, row |-> disp[i]]]
        mine == SelectSeq(all, LAMBDA x : x.row.emergency = e)
    IN  /\ task[p].pc = "idle"
        /\ em[e].exists
        /\ served < MaxConcRequests
        /\ Accept("resolve", e)
        /\ task' = [task EXCEPT ![p] =
                      [Idle EXCEPT !.pc = IF mine = <<>> THEN "resolve_routes"
                                          ELSE "resolve_dispatch",
                                   !.e = e,
                                   !.mem = [em[e] EXCEPT !.status = "resuelta",
                                                         !.resolved_at = TRUE],
                                   !.todo = mine]]
        /\ UNCHANGED <<em, veh, ag, disp, routes, tracked, waves>>

\* one turn of the loop: d.vehicle.save(), d.agent.save(), d.save()
ResolveDispatch(p) ==
  LET t == task[p]
      x == Head(t.todo)
      freed == ReleaseDispatch(x.row, DB)
  IN  /\ t.pc = "resolve_dispatch"
      /\ Statement(p, [t EXCEPT !.pc = IF Tail(t.todo) = <<>> THEN "resolve_routes" ELSE @,
                                !.todo = Tail(@)],
                   [freed EXCEPT !.disp[x.i] = [x.row EXCEPT !.status = "finalizado"]])

\* CalculatedRoute.objects.filter(emergency, status='activa').update(...)
ResolveRoutes(p) ==
  LET t == task[p]
  IN  /\ t.pc = "resolve_routes"
      /\ Statement(p, [t EXCEPT !.pc = "resolve_save"],
                   [DB EXCEPT !.routes = CompleteRoutes(t.e, @)])

\* self.save(update_fields=['status', 'resolved_at', 'resolution_notes'])
ResolveSave(p) ==
  LET t == task[p]
  IN  /\ t.pc = "resolve_save"
      /\ Statement(p, Idle, [DB EXCEPT !.em[t.e].status = "resuelta",
                                       !.em[t.e].resolved_at = TRUE])

\* a statement of resolve() raises (a database error) and the request ends
ResolveFail(p) ==
  /\ task[p].pc \in {"resolve_dispatch", "resolve_routes", "resolve_save"}
  /\ Statement(p, Idle, DB)

\* real_time_tracking: CalculatedRoute.objects.filter(status='activa')
DoTracking ==
  /\ served < MaxConcRequests
  /\ Accept("tracking", Null)
  /\ tracked' = {<<routes[i].emergency, routes[i].resource>> :
                   i \in {j \in DOMAIN routes : routes[j].status = "activa"}}
  /\ UNCHANGED <<em, veh, ag, disp, routes, task, waves>>

\* create_emergency, run from its first statement to its last
CreateConc == served < MaxConcRequests /\ DoCreate

NextConc ==
  \/ CreateConc
  \/ DoTracking
  \/ \E p \in Workers : StartProcess(p)
  \/ \E p \in Workers : StoreDelete(p)
  \/ \E p \in Workers : StoreInsert(p)
  \/ \E p \in Workers : AssignSave(p)
  \/ \E p \in Workers : AssignPut(p)
  \/ \E p \in Workers : EnsureGet(p)
  \/ \E p \in Workers : EnsureCreate(p)
  \/ \E p \in Workers : EnsureFinish(p)
  \/ \E p \in Workers : PersistDelete(p)
  \/ \E p \in Workers : PersistInsert(p)
  \/ \E p \in Workers : PersistDispatch(p)
  \/ \E p \in Workers : SaveEmergency(p)
  \/ \E p \in Workers : StartResolve(p)
  \/ \E p \in Workers : ResolveDispatch(p)
  \/ \E p \in Workers : ResolveRoutes(p)
  \/ \E p \in Workers : ResolveSave(p)
  \/ \E p \in Workers : ResolveFail(p)

SpecConc == Init /\ [][NextConc]_vars

\* ========================================================= RouteOptimizer
OPENROUTE_BACKOFF_SECONDS == 120
MaxRoutingClock == 120
MaxComputations == 2

\* how a provider answers a request: "failed" (no answer in time, or a status
\* other than 200 and 429: both make the get_route_* function return None),
\* 429, a 200 body that is not JSON, a 200 JSON body without routes, a 200
\* JSON body whose first route is an empty object, a route
Outcomes == {"failed", "rate_limited", "not_json", "no_routes", "malformed", "ok"}

\* the settings a deployment can have: every key, no key, offline
RoutingSettings ==
  {[keys |-> {"Mapbox", "OpenRoute", "GraphHopper"}, offline |-> FALSE],
   [keys |-> {}, offline |-> FALSE],
   [keys |-> {"Mapbox", "OpenRoute", "GraphHopper"}, offline |-> TRUE]}

\* RouteOptimizer.__init__
NewRouteOptimizer(settings) ==
  [keys |-> settings.keys, offline |-> settings.offline, openroute_rate_limited_until |-> 0]

\* the providers an optimizer sends requests to: none when offline, else
\* OSRM and those it has a key for
Reachable(opt) == IF opt.offline THEN {} ELSE {"OSRM"} \cup opt.keys

\* what get_best_route meets: the answer of each provider it can reach,
\* whether an active closure lies within 50 m of the chosen route, and whether
\* response.json() raises a requests.RequestException (it does from requests
\* 2.27 on)
Environments(opt) ==
  [outcome : [Reachable(opt) -> Outcomes], closure_hit : BOOLEAN, json_caught : BOOLEAN]

\* the answer of provider p, if it is asked
OutcomeOf(env, p) == IF p \in DOMAIN env.outcome THEN env.outcome[p] ELSE "failed"

\* get_route_mapbox / get_route_openroute / get_route_osrm / get_route_graphhopper:
\* whether a request is sent, what comes back, whether the call raises, and
\* the backoff deadline afterwards
Fetch(p, opt, outcome, now, json_caught) ==
  LET skipped == \/ opt.offline
                 \/ p # "OSRM" /\ p \notin opt.keys
                 \/ p = "OpenRoute" /\ now < opt.openroute_rate_limited_until
      quiet == [sent |-> ~skipped, body |-> "none", raised |-> FALSE,
                until |-> opt.openroute_rate_limited_until]
  IN  IF skipped THEN quiet
      ELSE CASE outcome = "failed" -> quiet
             [] outcome = "rate_limited" ->
                  [quiet EXCEPT !.until = IF p = "OpenRoute"
                                            THEN now + OPENROUTE_BACKOFF_SECONDS ELSE @]
             [] outcome = "not_json" -> [quiet EXCEPT !.raised = ~json_caught]
             [] outcome = "malformed" /\ p = "GraphHopper" -> quiet
             [] OTHER -> [quiet EXCEPT !.body = outcome]

\* the part of get_best_route that reads a provider's body:
\* "taken": a result is built from it, "raised": reading it raises
ReadBody(p, body) ==
  CASE body = "ok" -> "taken"
    [] body = "malformed" /\ p = "OpenRoute" -> "raised"
    [] OTHER -> "next"

RECURSIVE TryProviders(_, _, _, _, _)
TryProviders(ps, opt, env, now, acc) ==
  IF ps = <<>>
    THEN [acc EXCEPT !.provider = "FallbackGrid", !.geometry = "LineString"]
    ELSE LET p == Head(ps)
             f == Fetch(p, [opt EXCEPT !.openroute_rate_limited_until = acc.until],
                        OutcomeOf(env, p), now, env.json_caught)
             seen == [acc EXCEPT
                        !.sent = IF f.sent THEN @ \cup {p} ELSE @,
                        !.limited = IF f.sent /\ OutcomeOf(env, p) = "rate_limited"
                                      THEN @ \cup {p} ELSE @,
                        !.until = f.until]
         IN  IF f.raised \/ ReadBody(p, f.body) = "raised"
               THEN [seen EXCEPT !.raised = TRUE]
             ELSE IF ReadBody(p, f.body) = "taken"
               THEN [seen EXCEPT !.provider = p, !.geometry = "LineString"]
             ELSE TryProviders(Tail(ps), opt, env, now, seen)

\* adjust_route_for_closures: when the route meets a closure, OSRM and
\* GraphHopper are asked for an alternative and then
\* self._generate_alternative_grid_path is called, which RouteOptimizer does
\* not define
AdjustRouteForClosures(r, opt, env, now) ==
  IF ~env.closure_hit THEN r
  ELSE LET alts == SelectSeq(<<"OSRM", "GraphHopper">>, LAMBDA p : p # r.provider)
           asked == {p \in Range(alts) :
                       Fetch(p, opt, OutcomeOf(env, p), now, env.json_caught).sent}
       IN  [r EXCEPT !.raised = TRUE,
                     !.provider = "none",
                     !.geometry = "none",
                     !.sent = @ \cup asked,
                     !.limited = @ \cup {p \in asked : OutcomeOf(env, p) = "rate_limited"}]

\* get_best_route without a cache hit
GetBestRoute(opt, env, now) ==
  LET r == TryProviders(Providers, opt, env, now,
                        [call |-> "get_best_route", n |-> 0, raised |-> FALSE, provider |-> "none",
                         geometry |-> "none", sent |-> {}, limited |-> {},
                         until |-> opt.openroute_rate_limited_until])
  IN  IF r.raised THEN r ELSE AdjustRouteForClosures(r, opt, env, now)

InitRouting ==
  /\ InitRequests
  /\ clock = 0
  /\ optimizer \in {NewRouteOptimizer(c) : c \in RoutingSettings}
  /\ throttled = [p \in ProviderSet |-> Never]
  /\ answer = NoAnswer

requests == <<em, veh, ag, disp, routes, served, last, task, tracked, waves>>

\* get_route_optimizer(): every caller builds a new RouteOptimizer
GetRouteOptimizer ==
  /\ optimizer' = NewRouteOptimizer(optimizer)
  /\ UNCHANGED <<clock, throttled, answer>>
  /\ UNCHANGED requests

\* route computations so far
Computations == IF answer.call = "get_best_route" THEN answer.n ELSE 0

\* one route computation
BestRoute ==
  \E env \in Environments(optimizer) :
    LET r == GetBestRoute(optimizer, env, clock)
    IN  /\ Computations < MaxComputations
        /\ answer' = [r EXCEPT !.n = Computations + 1]
        /\ optimizer' = [optimizer EXCEPT !.openroute_rate_limited_until = r.until]
        /\ throttled' = [p \in ProviderSet |-> IF p \in r.limited THEN clock ELSE throttled[p]]
        /\ UNCHANGED clock
        /\ UNCHANGED requests

\* time passes, half a backoff window at a time; it is counted from the
\* first route computation
TickRouting ==
  /\ Computations > 0
  /\ clock < MaxRoutingClock
  /\ clock' = clock + OPENROUTE_BACKOFF_SECONDS \div 2
  /\ UNCHANGED <<optimizer, throttled, answer>>
  /\ UNCHANGED requests

NextRouting ==
  \/ GetRouteOptimizer
  \/ BestRoute
  \/ TickRouting

SpecRouting == InitRouting /\ [][NextRouting]_vars

\* ==================================================== green-wave registry
\* The registry of the module's traffic_manager over time: waves are
\* registered, the time passes, and the two queries read the registry.
MaxWaveClock == 2400
WaveTick == WAVE_TTL \div 3

IntersectionIds == {"9julio_corrientes", "florida_corrientes"}

InitWave ==
  /\ InitRequests
  /\ clock = 0
  /\ optimizer = NoOptimizer
  /\ throttled = [p \in ProviderSet |-> Never]
  /\ answer = NoAnswer

\* traffic_manager.activate_green_wave(key, vehicle position, incident position)
RegisterWave ==
  \E e \in Incidents, v \in Vehicles :
    /\ waves' = TrafficManagerActivate(waves, <<e, "vehicle", v>>, v, e, clock).registry
    /\ UNCHANGED <<em, veh, ag, disp, routes, served, last, task, tracked>>
    /\ UNCHANGED aside

\* traffic_manager.get_active_green_waves()
QueryActiveWaves ==
  LET active == ActiveGreenWaves(waves, clock)
  IN  /\ answer' = [call |-> "get_active_green_waves", now |-> clock,
                    scanned |-> DOMAIN waves, returned |-> DOMAIN active]
      /\ waves' = active
      /\ UNCHANGED <<em, veh, ag, disp, routes, served, last, task, tracked>>
      /\ UNCHANGED <<clock, optimizer, throttled>>

\* traffic_manager.get_intersection_status(intersection_id)
QueryIntersection ==
  \E id \in IntersectionIds :
    LET status == IntersectionStatus(waves, id, clock)
    IN  /\ answer' = [call |-> "get_intersection_status", now |-> clock,
                      scanned |-> DOMAIN waves, returned |-> status.active_emergencies]
        /\ waves' = status.registry
        /\ UNCHANGED <<em, veh, ag, disp, routes, served, last, task, tracked>>
        /\ UNCHANGED <<clock, optimizer, throttled>>

\* datetime.now() advances
TickWave ==
  /\ clock < MaxWaveClock
  /\ clock' = clock + WaveTick
  /\ UNCHANGED requests
  /\ UNCHANGED <<optimizer, throttled, answer>>

NextWave == RegisterWave \/ QueryActiveWaves \/ QueryIntersection \/ TickWave

SpecWave == InitWave /\ [][NextWave]_vars

\* ============================================================ triage
\* ------------------------------------------------------------- core/ai.py
\* keywords a description hits, with their weights
TriageWords == {"infarto", "incendio", "robo", "choque"}

\* further keywords, for the rules layer on its own
RuleWords == TriageWords \cup {"paro cardiaco", "caida", "fiebre"}

KeywordWeight(w) ==
  CASE w = "paro cardiaco" -> 60
    [] w = "infarto" -> 55
    [] w = "incendio" -> 40
    [] w = "robo" -> 40
    [] w = "choque" -> 30
    [] w = "caida" -> 20
    [] w = "fiebre" -> 5

\* the keywords the type patterns match
MEDICAL_PATTERNS == {"infarto", "fiebre"}
FIRE_PATTERNS == {"incendio"}
TRAFFIC_PATTERNS == {"choque"}
POLICE_PATTERNS == {"robo"}

ROJO_SCORE == 60
AMARILLO_SCORE == 25
MAX_SCORE == 100

\* a description: empty, or a text hitting the given keywords
TriageDescriptions ==
  {[empty |-> TRUE, words |-> {}]}
    \cup {[empty |-> FALSE, words |-> w] : w \in SUBSET TriageWords}

RECURSIVE SumWeights(_)
SumWeights(ws) ==
  IF ws = {} THEN 0
  ELSE LET w == CHOOSE x \in ws : TRUE IN KeywordWeight(w) + SumWeights(ws \ {w})

\* analyze_description: (score, tipo_sugerido)
AnalyzeDescription(d) ==
  LET sum == SumWeights(d.words)
      score == IF sum < 1 THEN 1 ELSE IF sum > MAX_SCORE THEN MAX_SCORE ELSE sum
  IN  IF d.empty THEN [score |-> 0, tipo |-> "policial"]
      ELSE [score |-> score,
            tipo |-> IF d.words \cap MEDICAL_PATTERNS # {} THEN "medico"
                     ELSE IF d.words \cap FIRE_PATTERNS # {} THEN "bomberos"
                     ELSE IF d.words \cap TRAFFIC_PATTERNS # {}
                       THEN (IF sum > 40 THEN "bomberos" ELSE "policial")
                     ELSE "policial"]

\* variant: the thresholds are exclusive
ClassifyEmergencyAbove(d) ==
  LET a == AnalyzeDescription(d)
  IN  [codigo |-> IF a.score > ROJO_SCORE THEN "rojo"
                  ELSE IF a.score > AMARILLO_SCORE THEN "amarillo" ELSE "verde",
       score |-> a.score, tipo |-> a.tipo]

\* classify_emergency
ClassifyEmergency(d) ==
  LET a == AnalyzeDescription(d)
  IN  [codigo |-> IF a.score >= ROJO_SCORE THEN "rojo"
                  ELSE IF a.score >= AMARILLO_SCORE THEN "amarillo" ELSE "verde",
       score |-> a.score, tipo |-> a.tipo]

\* get_ai_classification_with_response: the dict of the rules layer
GetAiClassificationWithResponse(d) ==
  IF d.empty
    THEN [tipo |-> "policial", codigo |-> "verde", score |-> 1,
          razones |-> "text", respuesta_ia |-> "text"]
    ELSE LET c == ClassifyEmergency(d)
         IN  [tipo |-> c.tipo, codigo |-> c.codigo, score |-> c.score,
              razones |-> "text", respuesta_ia |-> "text"]

\* the rules layer on its own: a description comes in and is classified
RuleDescriptions ==
  {[empty |-> TRUE, words |-> {}]}
    \cup {[empty |-> FALSE, words |-> w] : w \in SUBSET RuleWords}

InitRules ==
  /\ InitRequests
  /\ clock = 0
  /\ optimizer = NoOptimizer
  /\ throttled = [p \in ProviderSet |-> Never]
  /\ answer \in {[call |-> "get_ai_classification_with_response", phase |-> "asked",
                   input |-> d] : d \in RuleDescriptions}

RulesClassify ==
  /\ answer.phase = "asked"
  /\ answer' = [answer EXCEPT !.phase = "answered"]
                  @@ [result |-> GetAiClassificationWithResponse(answer.input)]
  /\ UNCHANGED requests
  /\ UNCHANGED <<clock, optimizer, throttled>>

NextRules == RulesClassify

SpecRules == InitRules /\ [][NextRules]_vars

\* ------------------------------------------------------------ core/llm.py
AI_MAX_RETRIES == 3
NoScore == -1

\* settings: AI_PROVIDER and whether the provider's key or base URL is set
AiSettings ==
  [provider : {"openai", "ollama", "watson"}, configured : BOOLEAN]

\* what one request to the provider comes back with
AiOutcomes ==
  {"timeout", "non_200", "body_not_json", "no_choices", "empty_content",
   "content_not_json", "content_not_object", "answer", "answer_bare"}

\* the parsed content of a usable answer
CloudAnswer(outcome) ==
  IF outcome = "answer"
    THEN [tipo |-> "medico", codigo |-> "rojo", score |-> 90,
          recursos |-> <<[tipo |-> "ambulancia", cantidad |-> 1]>>]
    ELSE [tipo |-> "", codigo |-> "", score |-> NoScore, recursos |-> <<>>]

\* _call_openai / _ollama_chat from attempt i on: what classify returns
RECURSIVE CallProvider(_, _, _)
CallProvider(i, outcomes, json_caught) ==
  IF i > AI_MAX_RETRIES THEN [kind |-> "none", raised |-> FALSE, attempts |-> AI_MAX_RETRIES]
  ELSE CASE outcomes[i] \in {"timeout", "non_200", "no_choices", "empty_content",
                             "content_not_json"}
              -> CallProvider(i + 1, outcomes, json_caught)
         [] outcomes[i] = "body_not_json"
              -> IF json_caught THEN CallProvider(i + 1, outcomes, json_caught)
                 ELSE [kind |-> "none", raised |-> TRUE, attempts |-> i]
         [] outcomes[i] = "content_not_object"
              -> [kind |-> "list", raised |-> FALSE, attempts |-> i]
         [] OTHER
              -> [kind |-> "dict", raised |-> FALSE, attempts |-> i,
                  value |-> CloudAnswer(outcomes[i])]

\* CloudAIClient.classify
CloudClassify(in) ==
  IF in.description.empty \/ ~in.settings.configured
       \/ in.settings.provider \notin {"openai", "ollama"}
    THEN [kind |-> "none", raised |-> FALSE, attempts |-> 0]
    ELSE CallProvider(1, in.outcomes, in.json_caught)

\* _normalize_result
NormalizeResult(result, fuente) ==
  [tipo |-> IF result.tipo = "" THEN "policial" ELSE result.tipo,
   codigo |-> IF result.codigo = "" THEN "verde" ELSE result.codigo,
   score |-> result.score,
   razones |-> "text",
   respuesta_ia |-> "text",
   recursos |-> result.recursos,
   recommended_resources |-> result.recursos,
   fuente |-> fuente]

\* the fallback of classify_with_ai: the rules layer's dict with fuente,
\* recursos (setdefault from the absent recommended_resources) and
\* recommended_resources added
RulesFallback(d) ==
  LET fallback == GetAiClassificationWithResponse(d)
  IN  [tipo |-> fallback.tipo, codigo |-> fallback.codigo, score |-> fallback.score,
       razones |-> fallback.razones, respuesta_ia |-> fallback.respuesta_ia,
       recursos |-> <<>>,
       recommended_resources |-> <<>>,
       fuente |-> "local"]

\* classify_with_ai
ClassifyWithAi(in) ==
  LET c == CloudClassify(in)
  IN  [call |-> "classify_with_ai", phase |-> "answered", input |-> in,
       raised |-> FALSE, attempts |-> c.attempts,
       result |-> IF c.kind = "dict"
                    THEN NormalizeResult(c.value, in.settings.provider)
                    ELSE RulesFallback(in.description)]

TriageInputs ==
  [description : TriageDescriptions, settings : AiSettings,
   outcomes : [1..AI_MAX_RETRIES -> AiOutcomes], json_caught : BOOLEAN]

InitTriage ==
  /\ InitRequests
  /\ clock = 0
  /\ optimizer = NoOptimizer
  /\ throttled = [p \in ProviderSet |-> Never]
  /\ answer \in {[call |-> "classify_with_ai", phase |-> "asked", input |-> in] :
                   in \in TriageInputs}

Classify ==
  /\ answer.phase = "asked"
  /\ answer' = ClassifyWithAi(answer.input)
  /\ UNCHANGED requests
  /\ UNCHANGED <<clock, optimizer, throttled>>

NextTriage == Classify

SpecTriage == InitTriage /\ [][NextTriage]_vars

\* ========================================================== mobility
\* Progress of the stored routes over time: emergency_mobility_api and
\* real_time_tracking read the tables at wall-clock time `clock` (seconds of
\* the day). Factors and progress are in 1/10000.
UNIT == 10000

\* rng.uniform(0.85, 1.35) of random.Random(f"{resource_id}-{emergency_id}")
TrafficBase(resource, e) ==
  CASE resource = <<"vehicle", 1>> /\ e = 1 -> 9378
    [] resource = <<"vehicle", 1>> /\ e = 2 -> 10095
    [] resource = <<"vehicle", 1>> /\ e = 3 -> 12511
    [] resource = <<"vehicle", 2>> /\ e = 1 -> 9301
    [] resource = <<"vehicle", 2>> /\ e = 2 -> 10811
    [] resource = <<"vehicle", 2>> /\ e = 3 -> 11111
    [] resource = <<"vehicle", 3>> /\ e = 1 -> 12303
    [] resource = <<"vehicle", 3>> /\ e = 2 -> 12808
    [] resource = <<"vehicle", 3>> /\ e = 3 -> 10204
    [] resource = <<"agent", 1>> /\ e = 1 -> 12399
    [] resource = <<"agent", 1>> /\ e = 2 -> 11938
    [] resource = <<"agent", 1>> /\ e = 3 -> 13444
    [] resource = <<"agent", 2>> /\ e = 1 -> 9674
    [] resource = <<"agent", 2>> /\ e = 2 -> 11160
    [] resource = <<"agent", 2>> /\ e = 3 -> 12079
    [] resource = <<"fallback", 1>> /\ e = 1 -> 9625
    [] resource = <<"fallback", 2>> /\ e = 2 -> 12707
    [] resource = <<"fallback", 3>> /\ e = 3 -> 11567
    [] OTHER -> 10000

\* the second draw of the same generator: rng.uniform(1.05, 1.25)
TrafficRush(resource, e) ==
  CASE resource = <<"vehicle", 1>> /\ e = 1 -> 10831
    [] resource = <<"vehicle", 1>> /\ e = 2 -> 10682
    [] resource = <<"vehicle", 1>> /\ e = 3 -> 10830
    [] resource = <<"vehicle", 2>> /\ e = 1 -> 12106
    [] resource = <<"vehicle", 2>> /\ e = 2 -> 12185
    [] resource = <<"vehicle", 2>> /\ e = 3 -> 11878
    [] resource = <<"vehicle", 3>> /\ e = 1 -> 11641
    [] resource = <<"vehicle", 3>> /\ e = 2 -> 11636
    [] resource = <<"vehicle", 3>> /\ e = 3 -> 10627
    [] resource = <<"agent", 1>> /\ e = 1 -> 10929
    [] resource = <<"agent", 1>> /\ e = 2 -> 11766
    [] resource = <<"agent", 1>> /\ e = 3 -> 11797
    [] resource = <<"agent", 2>> /\ e = 1 -> 11130
    [] resource = <<"agent", 2>> /\ e = 2 -> 11118
    [] resource = <<"agent", 2>> /\ e = 3 -> 12379
    [] resource = <<"fallback", 1>> /\ e = 1 -> 11703
    [] resource = <<"fallback", 2>> /\ e = 2 -> 10742
    [] resource = <<"fallback", 3>> /\ e = 3 -> 12111
    [] OTHER -> 10000

\* 7 <= now.hour <= 10 or 17 <= now.hour <= 20
RushHour(now) ==
  LET hour == (now \div 3600) % 24
  IN  (7 <= hour /\ hour <= 10) \/ (17 <= hour /\ hour <= 20)

\* _determine_traffic_factor
DetermineTrafficFactor(r, m, now) ==
  LET base == TrafficBase(r.resource, r.emergency)
      rush == IF RushHour(now)
                THEN (base * TrafficRush(r.resource, r.emergency)) \div UNIT ELSE base
      red == IF m.code = "rojo"
               THEN (IF m.onda_verde THEN (rush * 60) \div 100 ELSE (rush * 85) \div 100)
               ELSE rush
  IN  IF red < 4500 THEN 4500 ELSE IF red > 17500 THEN 17500 ELSE red

\* variant: the factor of the hour the route was calculated at
TrafficFactorAtCalculation(r, m, now) ==
  LET base == TrafficBase(r.resource, r.emergency)
      rush == IF RushHour(r.calculated_at)
                THEN (base * TrafficRush(r.resource, r.emergency)) \div UNIT ELSE base
      red == IF m.code = "rojo"
               THEN (IF m.onda_verde THEN (rush * 60) \div 100 ELSE (rush * 85) \div 100)
               ELSE rush
  IN  IF red < 4500 THEN 4500 ELSE IF red > 17500 THEN 17500 ELSE red

FALLBACK_MINUTES == 12

\* estimated_time_minutes * 60, at least 60
TotalSeconds(r) ==
  LET est == IF r.resource[1] = "fallback" THEN FALLBACK_MINUTES * 60
             ELSE DurationS(r.resource[1], r.resource[2], r.emergency)
  IN  IF est < 60 THEN 60 ELSE est

\* total_seconds * traffic_factor, in seconds
AdjustedTotal(r, m, now) == (TotalSeconds(r) * DetermineTrafficFactor(r, m, now)) \div UNIT

\* min(1.0, elapsed / adjusted_total)
ProgressAt(r, m, now) ==
  LET p == ((now - r.calculated_at) * UNIT) \div AdjustedTotal(r, m, now)
  IN  IF p > UNIT THEN UNIT ELSE p

\* variant: a resolved incident's routes are not frozen
MobilityEntryRunning(i, r, m, now) ==
  LET progress == ProgressAt(r, m, now)
  IN  [row |-> i, emergency |-> r.emergency, resource |-> r.resource,
       calculated_at |-> r.calculated_at, route_status |-> r.status,
       progress |-> progress,
       eta |-> IF progress >= UNIT THEN 0
               ELSE (AdjustedTotal(r, m, now) * (UNIT - progress)) \div UNIT,
       status |-> IF progress < UNIT THEN "en_ruta" ELSE "en_escena"]

\* emergency_mobility_api: the payload of one stored route
MobilityEntry(i, r, m, now) ==
  LET frozen == m.status = "resuelta"
      progress == IF frozen THEN UNIT ELSE ProgressAt(r, m, now)
  IN  [row |-> i, emergency |-> r.emergency, resource |-> r.resource,
       calculated_at |-> r.calculated_at, route_status |-> r.status,
       progress |-> progress,
       eta |-> IF progress >= UNIT THEN 0
               ELSE (AdjustedTotal(r, m, now) * (UNIT - progress)) \div UNIT,
       status |-> IF progress < UNIT /\ ~frozen THEN "en_ruta" ELSE "en_escena"]

\* emergency_mobility_api
EmergencyMobilityApi(e, db, now) ==
  [call |-> "emergency_mobility_api", e |-> e, now |-> now,
   frozen |-> db.em[e].status = "resuelta",
   resources |-> {MobilityEntry(i, db.routes[i], db.em[e], now) :
                    i \in {j \in DOMAIN db.routes : db.routes[j].emergency = e}}]

\* _build_vehicle_tracking
BuildVehicleTracking(i, r, m, now) ==
  LET elapsed == IF now < r.calculated_at THEN 0 ELSE now - r.calculated_at
      adjusted == AdjustedTotal(r, m, now)
      p == (elapsed * UNIT) \div adjusted
      progress == IF p > UNIT THEN UNIT ELSE p
  IN  [row |-> i, emergency |-> r.emergency, resource |-> r.resource,
       calculated_at |-> r.calculated_at, route_status |-> r.status,
       progress |-> progress,
       eta |-> IF adjusted < elapsed THEN 0 ELSE adjusted - elapsed,
       status |-> IF progress < UNIT THEN "en_ruta" ELSE "en_escena"]

\* real_time_tracking: the entries of the vehicles of the dispatches that are
\* despachado or en_ruta and have an active route (of the rows of one key the
\* dict keeps the last)
RealTimeTracking(db, now) ==
  LET active(e, v) == {j \in DOMAIN db.routes :
                         /\ ActiveOf(e, db.routes[j])
                         /\ db.routes[j].resource = <<"vehicle", v>>}
      shown == {d \in DOMAIN db.disp :
                  /\ db.disp[d].status \in {"despachado", "en_ruta"}
                  /\ db.disp[d].vehicle # Null
                  /\ active(db.disp[d].emergency, db.disp[d].vehicle) # {}}
  IN  [call |-> "real_time_tracking", e |-> Null, now |-> now, frozen |-> FALSE,
       resources |->
         {LET e == db.disp[d].emergency
              i == CHOOSE j \in active(e, db.disp[d].vehicle) :
                     \A k \in active(e, db.disp[d].vehicle) : k <= j
          IN  BuildVehicleTracking(i, db.routes[i], db.em[e], now) : d \in shown}]

MaxMobilityTicks == 8
MaxMobilityRequests == 3
MobilityTick == 60
\* the first request comes eight minutes before the 7 o'clock rush
MobilityStart == 7 * 3600 - 8 * MobilityTick

InitMobility ==
  /\ InitRequests
  /\ clock = MobilityStart
  /\ optimizer = NoOptimizer
  /\ throttled = [p \in ProviderSet |-> Never]
  /\ answer = NoAnswer

\* the requests that plan and close the first incident
MobilityCreate ==
  /\ served < MaxMobilityRequests
  /\ \E d \in Descriptions, ia \in IAResults :
       ~em[1].exists /\ Install("create", 1, CreateEmergency(1, d, TRUE, ia, DB))

MobilityProcess ==
  /\ served < MaxMobilityRequests
  /\ \E ia \in IAResults :
       em[1].exists /\ Install("process", 1, ProcessEmergency(1, ia, DB))

MobilityResolve ==
  /\ served < MaxMobilityRequests
  /\ em[1].exists /\ Install("resolve", 1, Resolve(1, DB))

\* GET emergency_mobility_api
MobilitySnapshot ==
  /\ em[1].exists
  /\ answer' = EmergencyMobilityApi(1, DB, clock)
  /\ UNCHANGED requests
  /\ UNCHANGED <<clock, optimizer, throttled>>

\* GET real_time_tracking
TrackingSnapshot ==
  /\ answer' = RealTimeTracking(DB, clock)
  /\ tracked' = {<<routes[i].emergency, routes[i].resource>> :
                   i \in {j \in DOMAIN routes : routes[j].status = "activa"}}
  /\ UNCHANGED <<em, veh, ag, disp, routes, served, last, task, waves>>
  /\ UNCHANGED <<clock, optimizer, throttled>>

\* timezone.now() advances
TickMobility ==
  /\ clock < MobilityStart + MaxMobilityTicks * MobilityTick
  /\ clock' = clock + MobilityTick
  /\ UNCHANGED requests
  /\ UNCHANGED <<optimizer, throttled, answer>>

NextMobility ==
  \/ MobilityCreate
  \/ MobilityProcess
  \/ MobilityResolve
  \/ MobilitySnapshot
  \/ TrackingSnapshot
  \/ TickMobility

SpecMobility == InitMobility /\ [][NextMobility]_vars

\* ========================================================== closures
\* adjust_route_for_closures on its own: the active StreetClosure rows, the
\* route it is given and what the alternatives' providers answer.
Closures == {"corte_1", "corte_2"}

\* a route: its provider and the closures within 50 m of its geometry
\* (route_intersects_closure)
RoutesAmong(providers, active) ==
  [provider : providers, hits : SUBSET active]

NoRoute == [provider |-> "none", hits |-> {}]

ClosureInputs ==
  UNION {[active : {active},
          route : RoutesAmong({"Mapbox", "OSRM", "GraphHopper", "FallbackGrid"}, active),
          osrm : RoutesAmong({"OSRM"}, active) \cup {NoRoute},
          graphhopper_key : BOOLEAN,
          graphhopper : RoutesAmong({"GraphHopper"}, active) \cup {NoRoute}]
           : active \in SUBSET Closures}

\* the alternatives gathered before the grid path: OSRM unless it gave the
\* route, GraphHopper when it has a key and did not give the route
Alternatives(in) ==
  (IF in.route.provider # "OSRM" /\ in.osrm # NoRoute THEN <<in.osrm>> ELSE <<>>)
  \o (IF in.graphhopper_key /\ in.route.provider # "GraphHopper" /\ in.graphhopper # NoRoute
        THEN <<in.graphhopper>> ELSE <<>>)

Returned(route, original, warning) ==
  [raised |-> FALSE, route |-> route, original |-> original,
   intersects_closures |-> warning # {}, closures_warning |-> warning]

\* variant: the grid alternative exists and meets no closure; the first
\* alternative clear of the closures the route met is returned
AdjustWithGridAlternative(in) ==
  LET intersecting == in.route.hits
      alts == Alternatives(in) \o <<[provider |-> "AlternativeGrid", hits |-> {}]>>
      clear == {i \in DOMAIN alts : alts[i].hits \cap intersecting = {}}
  IN  IF in.active = {} \/ intersecting = {} THEN Returned(in.route, TRUE, {})
      ELSE IF clear # {}
        THEN Returned(alts[CHOOSE i \in clear : \A j \in clear : i <= j], FALSE, {})
        ELSE Returned(in.route, TRUE, intersecting)

\* adjust_route_for_closures: a route that meets a closure ends in the call
\* of self._generate_alternative_grid_path, which the class does not define
AdjustForClosures(in) ==
  IF in.active = {} \/ in.route.hits = {} THEN Returned(in.route, TRUE, {})
  ELSE [raised |-> TRUE, route |-> NoRoute, original |-> FALSE,
        intersects_closures |-> FALSE, closures_warning |-> {}]

InitClosures ==
  /\ InitRequests
  /\ clock = 0
  /\ optimizer = NoOptimizer
  /\ throttled = [p \in ProviderSet |-> Never]
  /\ answer \in {[call |-> "adjust_route_for_closures", phase |-> "asked", input |-> in] :
                   in \in ClosureInputs}

AdjustRoute ==
  /\ answer.phase = "asked"
  /\ answer' = [answer EXCEPT !.phase = "answered"]
                  @@ [result |-> AdjustForClosures(answer.input)]
  /\ UNCHANGED requests
  /\ UNCHANGED <<clock, optimizer, throttled>>

NextClosures == AdjustRoute

SpecClosures == InitClosures /\ [][NextClosures]_vars

\* ============================================== registry, concurrently
\* The threads of the server share the module's traffic_manager, which has
\* no lock. activate_green_wave writes the registry with one dict store;
\* get_active_green_waves iterates the registry dict item by item and then
\* replaces the attribute by the dict it built; get_intersection_status
\* iterates the dict that call returned. A dict that grows while it is
\* iterated raises RuntimeError at the iterator's next step.
RegistryVehicles == {1}
MaxRegistryCalls == 3
MaxRegistryClock == 1800
RegistryTick == WAVE_TTL \div 2

NoWaves == [k \in {} |-> Null]

\* the locals of a query: the dict object it iterates (dict), whether the
\* attribute still refers to that object (own), whether the object grew
\* since the iterator was made (changed), the keys left (todo), active_waves (seen)
QueryTask(kind, id, now, reg) ==
  [pc |-> "scan", kind |-> kind, id |-> id, now |-> now, dict |-> reg, own |-> TRUE,
   changed |-> FALSE, todo |-> DOMAIN reg, seen |-> NoWaves, scanned |-> DOMAIN reg]

Raised(t) ==
  [call |-> t.kind, now |-> t.now, raised |-> TRUE, scanned |-> t.scanned, returned |-> {}]

InitRegistry ==
  /\ InitRequests
  /\ clock = 0
  /\ optimizer = NoOptimizer
  /\ throttled = [p \in ProviderSet |-> Never]
  /\ answer = NoAnswer

\* self.active_green_waves[emergency_id] = {...}
StoreWave ==
  \E e \in Incidents, v \in RegistryVehicles :
    LET key == <<e, "vehicle", v>>
        reg == TrafficManagerActivate(waves, key, v, e, clock).registry
    IN  /\ served < MaxRegistryCalls
        /\ served' = served + 1
        /\ waves' = reg
        /\ task' = [p \in Workers |->
                      IF task[p].pc \in {"scan", "read"} /\ task[p].own
                        THEN [task[p] EXCEPT !.dict = reg,
                                             !.changed = @ \/ key \notin DOMAIN waves]
                        ELSE task[p]]
        /\ UNCHANGED <<em, veh, ag, disp, routes, last, tracked>>
        /\ UNCHANGED aside

\* current_time = datetime.now(); active_waves = {}; the for loop starts
StartQuery(p) ==
  \E kind \in {"get_active_green_waves", "get_intersection_status"}, id \in IntersectionIds :
    /\ task[p].pc = "idle"
    /\ kind = "get_active_green_waves" => id = "9julio_corrientes"
    /\ served < MaxRegistryCalls
    /\ served' = served + 1
    /\ task' = [task EXCEPT ![p] = QueryTask(kind, id, clock, waves)]
    /\ UNCHANGED <<em, veh, ag, disp, routes, last, tracked, waves>>
    /\ UNCHANGED aside

\* one step of the for loop of get_active_green_waves
ScanNext(p) ==
  LET t == task[p]
  IN  /\ t.pc = "scan"
      /\ IF t.changed
           THEN task' = [task EXCEPT ![p] = Idle] /\ answer' = Raised(t)
         ELSE IF t.todo = {}
           THEN task' = [task EXCEPT ![p].pc = "replace"] /\ UNCHANGED answer
         ELSE \E k \in t.todo :
                /\ task' = [task EXCEPT
                              ![p].todo = @ \ {k},
                              ![p].seen = IF t.now - t.dict[k].created_at < WAVE_TTL
                                            THEN Put(@, k, t.dict[k]) ELSE @]
                /\ UNCHANGED answer
      /\ UNCHANGED <<em, veh, ag, disp, routes, served, last, tracked, waves>>
      /\ UNCHANGED <<clock, optimizer, throttled>>

\* self.active_green_waves = active_waves; return active_waves
ReplaceRegistry(p) ==
  LET t == task[p]
      others == [q \in Workers |->
                   IF q # p /\ task[q].pc \in {"scan", "read"}
                     THEN [task[q] EXCEPT !.own = FALSE] ELSE task[q]]
  IN  /\ t.pc = "replace"
      /\ waves' = t.seen
      /\ IF t.kind = "get_active_green_waves"
           THEN /\ task' = [others EXCEPT ![p] = Idle]
                /\ answer' = [call |-> t.kind, now |-> t.now, raised |-> FALSE,
                              scanned |-> t.scanned, returned |-> DOMAIN t.seen]
           ELSE /\ task' = [others EXCEPT ![p] = [t EXCEPT !.pc = "read", !.dict = t.seen,
                                                           !.own = TRUE, !.changed = FALSE]]
                /\ UNCHANGED answer
      /\ UNCHANGED <<em, veh, ag, disp, routes, served, last, tracked>>
      /\ UNCHANGED <<clock, optimizer, throttled>>

\* the for loop of get_intersection_status over the returned dict, at its
\* last step
ReadWaves(p) ==
  LET t == task[p]
  IN  /\ t.pc = "read"
      /\ task' = [task EXCEPT ![p] = Idle]
      /\ answer' = IF t.changed THEN Raised(t)
                   ELSE [call |-> t.kind, now |-> t.now, raised |-> FALSE,
                         scanned |-> t.scanned,
                         returned |-> {k \in DOMAIN t.dict :
                                         \E i \in DOMAIN t.dict[k].timing :
                                           t.dict[k].timing[i].intersection = t.id}]
      /\ UNCHANGED <<em, veh, ag, disp, routes, served, last, tracked, waves>>
      /\ UNCHANGED <<clock, optimizer, throttled>>

\* datetime.now() advances
TickRegistry ==
  /\ clock < MaxRegistryClock
  /\ clock' = clock + RegistryTick
  /\ UNCHANGED requests
  /\ UNCHANGED <<optimizer, throttled, answer>>

NextRegistry ==
  \/ StoreWave
  \/ \E p \in Workers : StartQuery(p)
  \/ \E p \in Workers : ScanNext(p)
  \/ \E p \in Workers : ReplaceRegistry(p)
  \/ \E p \in Workers : ReadWaves(p)
  \/ TickRegistry

SpecRegistry == InitRegistry /\ [][NextRegistry]_vars

\* ============================================================ route cache
\* The cache of one RouteOptimizer over a sequence of get_best_route calls.
\* Result dicts are objects: heap maps the identity of each dict alive to its
\* contents, the cache holds identities, least recently used first, and a
\* caller may change the dict it was handed.
\* ROUTING_CACHE_SIZE is the setting (128 unless set), kept small here.
ROUTING_CACHE_SIZE == 2
MaxCacheCalls == 4

CacheKeys == {"a->x", "b->x", "c->x"}

\* what a call without a cache hit ends in: a provider's route, the fallback
\* grid, or an exception on the way
CacheOutcomes == {"Mapbox", "OSRM", "FallbackGrid", "raised"}

\* variant: the object itself is handed on
SameObject(heap, ref) == [heap |-> heap, ref |-> ref]

\* copy.deepcopy: a new object with the same contents
DeepCopy(heap, ref) ==
  LET fresh == Cardinality(DOMAIN heap) + 1
  IN  [heap |-> Put(heap, fresh, heap[ref]), ref |-> fresh]

\* the position of key in the cache, 0 when it has none
CachePosition(cache, key) ==
  IF \E i \in DOMAIN cache : cache[i].key = key
    THEN CHOOSE i \in DOMAIN cache : cache[i].key = key ELSE 0

\* OrderedDict.move_to_end(key)
MoveToEnd(cache, i) ==
  SelectSeq([j \in DOMAIN cache |-> IF j = i THEN [cache[j] EXCEPT !.key = ""] ELSE cache[j]],
            LAMBDA x : x.key # "") \o <<cache[i]>>

\* while len(cache) > size: cache.popitem(last=False)
RECURSIVE Evict(_, _)
Evict(cache, size) ==
  IF Len(cache) > size /\ cache # <<>> THEN Evict(Tail(cache), size) ELSE cache

\* _store_cache(key, value): a deep copy is stored under the key, the key is
\* moved to the end, and the oldest entries beyond the size are dropped.
\* used and stored record the call that last used the entry and the contents
\* it was stored with.
StoreCache(opt, key, ref, call) ==
  LET copy == DeepCopy(opt.heap, ref)
      i == CachePosition(opt.cache, key)
      entry == [key |-> key, ref |-> copy.ref, used |-> call, stored |-> copy.heap[copy.ref]]
      put == IF i = 0 THEN Append(opt.cache, entry)
             ELSE MoveToEnd([opt.cache EXCEPT ![i] = entry], i)
  IN  [opt EXCEPT !.heap = copy.heap, !.cache = Evict(put, ROUTING_CACHE_SIZE)]

\* get_best_route with the cache: a hit refreshes the entry and returns a
\* deep copy of it; otherwise the route is computed, stored and a deep copy
\* of it returned; an exception on the way stores nothing
GetBestRouteCached(opt, key, outcome, call) ==
  LET i == CachePosition(opt.cache, key)
  IN  IF i # 0
        THEN LET copy == DeepCopy(opt.heap, opt.cache[i].ref)
             IN  [optimizer |-> [opt EXCEPT
                                   !.heap = copy.heap,
                                   !.cache = MoveToEnd([@ EXCEPT ![i].used = call], i)],
                  result |-> [call |-> "get_best_route", n |-> call, key |-> key, hit |-> TRUE,
                              raised |-> FALSE, ref |-> copy.ref,
                              value |-> copy.heap[copy.ref]]]
      ELSE IF outcome = "raised"
        THEN [optimizer |-> opt,
              result |-> [call |-> "get_best_route", n |-> call, key |-> key, hit |-> FALSE,
                          raised |-> TRUE, ref |-> Null, value |-> Null]]
      ELSE LET built == Cardinality(DOMAIN opt.heap) + 1
               made == [opt EXCEPT !.heap = Put(@, built, [provider |-> outcome, changed |-> FALSE])]
               kept == StoreCache(made, key, built, call)
               copy == DeepCopy(kept.heap, built)
           IN  [optimizer |-> [kept EXCEPT !.heap = copy.heap],
                result |-> [call |-> "get_best_route", n |-> call, key |-> key, hit |-> FALSE,
                            raised |-> FALSE, ref |-> copy.ref,
                            value |-> copy.heap[copy.ref]]]

InitCache ==
  /\ InitRequests
  /\ clock = 0
  /\ optimizer = [keys |-> {}, offline |-> FALSE, openroute_rate_limited_until |-> 0,
                  cache |-> <<>>, heap |-> NoWaves]
  /\ throttled = [p \in ProviderSet |-> Never]
  /\ answer = NoAnswer

CacheCalls == IF answer.call = "get_best_route" THEN answer.n ELSE 0

\* one call of get_best_route
CachedRoute ==
  \E key \in CacheKeys, outcome \in CacheOutcomes :
    LET r == GetBestRouteCached(optimizer, key, outcome, CacheCalls + 1)
    IN  /\ CacheCalls < MaxCacheCalls
        /\ optimizer' = r.optimizer
        /\ answer' = r.result
        /\ UNCHANGED <<clock, throttled>>
        /\ UNCHANGED requests

\* the caller changes the dict it was handed
MutateResult ==
  /\ answer.call = "get_best_route"
  /\ ~answer.raised
  /\ ~optimizer.heap[answer.ref].changed
  /\ optimizer' = [optimizer EXCEPT !.heap[answer.ref].changed = TRUE]
  /\ UNCHANGED <<clock, throttled, answer>>
  /\ UNCHANGED requests

NextCache == CachedRoute \/ MutateResult

SpecCache == InitCache /\ [][NextCache]_vars

\* ================================================================ claims
RoutesOf(e, rows) == SelectSeq(rows, LAMBDA r : r.emergency = e)

NonFinished(d) == d.status # "finalizado"

\* statuses of a resource that is on a job
Engaged == {"en_ruta", "en_escena", "ocupado"}

\* C1: every CalculatedRoute row of a resolved incident is completed and has
\* its completed_at set.
C1_ResolvedRoutesCompleted ==
  \A e \in Incidents :
    em[e].status = "resuelta" =>
      \A i \in DOMAIN routes :
        routes[i].emergency = e =>
          routes[i].status = "completada" /\ routes[i].completed_at

\* C2: the vehicle and the agent of a dispatch that is not finished are
\* en route, on scene or busy.
C2_DispatchedResourceEngaged ==
  \A i \in DOMAIN disp :
    NonFinished(disp[i]) =>
      /\ disp[i].vehicle # Null => veh[disp[i].vehicle].status \in Engaged
      /\ disp[i].agent # Null => ag[disp[i].agent].status \in Engaged

\* C3: no vehicle is the vehicle of unfinished dispatches of two different
\* incidents.
C3_VehicleOneIncident ==
  \A i, j \in DOMAIN disp :
    /\ disp[i].vehicle # Null
    /\ disp[i].vehicle = disp[j].vehicle
    /\ NonFinished(disp[i])
    /\ NonFinished(disp[j])
    => disp[i].emergency = disp[j].emergency

\* C5: once an incident is resolved no request changes it: its status stays
\* resolved and its routes stay as they were.
C5_ResolvedFrozen ==
  [][\A e \in Incidents :
       em[e].status = "resuelta" =>
         /\ em'[e].status = "resuelta"
         /\ RoutesOf(e, routes') = RoutesOf(e, routes)]_vars

\* C6: resolving an incident leaves every dispatch of the incident finished
\* and the vehicle and the agent of each of them available.
C6_ResolveFreesDispatched ==
  last.op = "resolve" =>
    \A i \in DOMAIN disp :
      disp[i].emergency = last.e =>
        /\ disp[i].status = "finalizado"
        /\ disp[i].vehicle # Null => veh[disp[i].vehicle].status = "disponible"
        /\ disp[i].agent # Null => ag[disp[i].agent].status = "disponible"

\* an incident was just resolved that had a dispatch with a vehicle and an agent
C6_Witness ==
  /\ last.op = "resolve"
  /\ \E i \in DOMAIN disp :
       /\ disp[i].emergency = last.e
       /\ disp[i].vehicle # Null
       /\ disp[i].agent # Null
       /\ disp[i].status = "finalizado"

\* C7: a stored incident with code red has priority 10 and its green wave on,
\* whatever requests were served.
C7_RedIsTopPriorityWithWave ==
  \A e \in Incidents :
    em[e].exists /\ em[e].code = "rojo" =>
      em[e].priority = 10 /\ em[e].onda_verde

\* a code red that was resolved and then got a green-wave request
C7_Witness ==
  /\ last.op = "green_wave"
  /\ em[last.e].code = "rojo"
  /\ em[last.e].status = "resuelta"

ActiveCount(e, rows) == Cardinality({i \in DOMAIN rows : ActiveOf(e, rows[i])})

\* a re-plan of incident e: calculate_routes_api served for an incident that
\* is not resolved and had active routes
ReplanStep(e) ==
  /\ last'.op = "calculate_routes"
  /\ last'.e = e
  /\ last'.planned
  /\ em[e].status # "resuelta"

\* the rows stored before the re-plan that are not active rows of e are kept in
\* place, and every row after them is an active row of e
OnlyNewActiveRows(e) ==
  LET kept == DeleteActiveRoutes(e, routes)
  IN  /\ Len(routes') = Len(kept) + ActiveCount(e, routes')
      /\ SubSeq(routes', 1, Len(kept)) = kept

\* dispatch vehicles of e with a position that the planner did not return
UnplannedDispatchVehicles(e) ==
  Range(DispatchVehicleIds(e, DB))
    \ {ResourceId(PlannerOutput(e, DB)[i]) : i \in DOMAIN PlannerOutput(e, DB)}

\* C10 as stated: after a re-plan the active rows of the incident are as many
\* as the planner returned, and none of them is a row of the previous plan.
C10_ReplanCountIsPlannerOutput ==
  [][\A e \in Incidents :
       ReplanStep(e) =>
         /\ ActiveCount(e, routes') = Len(PlannerOutput(e, DB))
         /\ OnlyNewActiveRows(e)]_vars

\* C10 amended: after a re-plan the active rows of the incident are the rows
\* the planner returned plus one row for every dispatch vehicle of the incident
\* that the planner did not return, and none of them is a row of the previous plan.
C10_ReplanCountWithDispatches ==
  [][\A e \in Incidents :
       ReplanStep(e) =>
         /\ ActiveCount(e, routes')
              = Len(PlannerOutput(e, DB)) + Cardinality(UnplannedDispatchVehicles(e))
         /\ OnlyNewActiveRows(e)]_vars

\* a re-plan was served for an incident that is not resolved and has routes
C10_Witness ==
  /\ last.op = "calculate_routes"
  /\ last.planned
  /\ em[last.e].status # "resuelta"
  /\ ActiveCount(last.e, routes) > 0

\* C4: an incident has at most one dispatch per force, also when two
\* planners work on the same incident at the same time.
C4_OneDispatchPerForce ==
  \A i, j \in DOMAIN disp :
    disp[i].emergency = disp[j].emergency /\ disp[i].force = disp[j].force => i = j

\* a tracking request is served
TrackingStep == last'.op = "tracking" /\ served' = served + 1

\* worker p has deleted the active routes of its incident, which had some,
\* and has not written all the rows of the new plan yet
WritingRoutes(p) ==
  /\ task[p].pc \in {"store_insert", "persist_insert"}
  /\ task[p].old # {}

\* C8: a tracking request served while a re-plan is writing never reads a
\* partly written route set: until the new rows are all written it reads the
\* routes the incident had before the re-plan.
C8_TrackingSeesWholePlan ==
  [][\A p \in Workers :
       TrackingStep /\ WritingRoutes(p) =>
         {x[2] : x \in {y \in tracked' : y[1] = task[p].e}} = task[p].old]_vars

\* C9: resolution is all or nothing: while an incident has no resolved_at,
\* none of its dispatches is finished and none of its routes is completed,
\* also after a resolution that failed midway.
C9_ResolutionAllOrNothing ==
  \A e \in Incidents :
    em[e].exists /\ ~em[e].resolved_at =>
      /\ \A i \in DOMAIN disp : disp[i].emergency = e => disp[i].status # "finalizado"
      /\ \A i \in DOMAIN routes : routes[i].emergency = e => routes[i].status # "completada"

\* the dispatches of an incident
DispatchesOf(e, rows) == SelectSeq(rows, LAMBDA d : d.emergency = e)

\* every dispatch vehicle of e has a stored route, and e has at least as many
\* stored routes as dispatches
DispatchesCovered(e) ==
  /\ \A i \in DOMAIN disp :
       disp[i].emergency = e /\ disp[i].vehicle # Null =>
         \E j \in DOMAIN routes :
           routes[j].emergency = e /\ routes[j].resource = <<"vehicle", disp[i].vehicle>>
  /\ Len(RoutesOf(e, routes)) >= Len(DispatchesOf(e, disp))

NewDispatches ==
  {i \in (Len(disp) + 1)..Len(disp') : disp'[i].status = "despachado"}

\* the resources of a force that were available, with a known location
AvailableOfForce(kind, f) ==
  IF kind = "vehicle"
    THEN {v \in Vehicles : VehicleForce(v) = f /\ veh[v].status = "disponible" /\ VehicleLocated(v)}
    ELSE {a \in Agents : AgentForce(a) = f /\ ag[a].status = "disponible" /\ AgentLocated(a)}

\* x is an available located resource of the force whose route to incident e
\* has the least ETA (a route exists only to an incident with coordinates)
MinimalEta(kind, x, f, e) ==
  /\ x \in AvailableOfForce(kind, f)
  /\ em'[e].located
  /\ \A y \in AvailableOfForce(kind, f) : DurationS(kind, x, e) <= DurationS(kind, y, e)

\* the slot of a new dispatch: empty when the force has no candidate
SlotByEta(kind, x, f, e) ==
  IF AvailableOfForce(kind, f) = {} THEN x = Null ELSE MinimalEta(kind, x, f, e)

SlotFirst(kind, x, f) ==
  IF AvailableOfForce(kind, f) = {} THEN x = Null ELSE x = Min(AvailableOfForce(kind, f))

C13_BestRouteAlwaysAnswers ==
  answer.call = "get_best_route" =>
    /\ ~answer.raised
    /\ answer.geometry = "LineString"
    /\ answer.provider \in ProviderSet \cup {"FallbackGrid"}

\* a route computation is made
RouteComputed == answer'.call = "get_best_route" /\ answer'.n = Computations + 1

\* provider p answered 429 less than a backoff window ago
InBackoff(p) ==
  throttled[p] # Never /\ clock < throttled[p] + OPENROUTE_BACKOFF_SECONDS

\* C14: after a provider answers 429, no route computation sends it a request
\* before the backoff window is over.
C14_NoRequestDuringBackoff ==
  [][RouteComputed => \A p \in ProviderSet : InBackoff(p) => p \notin answer'.sent]_vars

\* the green wave is activated for the red incident e, which has coordinates,
\* right after it was activated for it
GreenWaveTwice(e) ==
  /\ last.op = "green_wave" /\ last.e = e
  /\ last'.op = "green_wave" /\ last'.e = e
  /\ em[e].code = "rojo"
  /\ em[e].located

\* the vehicles of the dispatches of an incident
DispatchedVehicles(e, rows) ==
  {rows[i].vehicle : i \in {j \in DOMAIN rows : rows[j].emergency = e /\ rows[j].vehicle # Null}}

\* the registry entries of incident e for vehicle v
EntriesFor(e, v, reg) == {k \in DOMAIN reg : k[1] = e /\ reg[k].vehicle = v}

\* C15: activating the green wave twice for a red incident leaves the registry
\* as after one activation, with exactly one entry per dispatched vehicle of
\* the incident.
C15_SecondActivationOneEntryEach ==
  [][\A e \in Incidents :
       GreenWaveTwice(e) =>
         /\ waves' = waves
         /\ \A v \in DispatchedVehicles(e, disp') :
              Cardinality(EntriesFor(e, v, waves')) = 1]_vars

\* the windows of the registered waves
Windows ==
  UNION {{waves[k].timing[i] : i \in DOMAIN waves[k].timing} : k \in DOMAIN waves}

\* C16: every window of the green-wave coordinator lasts 30 s (secondary
\* intersection) or 45 s (major intersection).
C16_WindowLasts30Or45 ==
  \A w \in Windows :
    w.green_end - w.green_start = (IF w.priority = 1 THEN 45 ELSE 30)

\* C16 as the code has it: the green starts 5 s before the arrival and ends
\* 45 s (major) or 30 s (secondary) after it, so a window lasts 50 s or 35 s.
C16_WindowLasts35Or50 ==
  \A w \in Windows :
    /\ w.green_start = w.arrival_time - 5
    /\ w.green_end = w.arrival_time + (IF w.priority = 1 THEN 45 ELSE 30)
    /\ w.green_end - w.green_start = (IF w.priority = 1 THEN 50 ELSE 35)

C16_Witness ==
  /\ \E w \in Windows : w.priority = 1
  /\ \E w \in Windows : w.priority = 2

\* a query of the registry has answered in this step
WaveQueried ==
  /\ answer' # answer
  /\ answer'.call \in {"get_active_green_waves", "get_intersection_status"}

WaveExpired(k) == clock - waves[k].created_at >= WAVE_TTL

\* C17: a wave aged 30 minutes or more is neither returned by
\* get_active_green_waves nor counted by get_intersection_status and is gone
\* from the registry after the query; a younger wave is left in the registry
\* unchanged.
C17_QueriesPurgeExactlyExpired ==
  [][WaveQueried =>
       /\ \A k \in DOMAIN waves :
            IF WaveExpired(k)
              THEN k \notin answer'.returned /\ k \notin DOMAIN waves'
              ELSE k \in DOMAIN waves' /\ waves'[k] = waves[k]
       /\ DOMAIN waves' \subseteq DOMAIN waves
       /\ answer'.call = "get_active_green_waves" => answer'.returned = DOMAIN waves']_vars

C17_Witness ==
  /\ answer.call \in {"get_active_green_waves", "get_intersection_status"}
  /\ answer.now = clock
  /\ answer.scanned \ DOMAIN waves # {}
  /\ DOMAIN waves # {}
  /\ \E k \in DOMAIN waves : clock - waves[k].created_at = WAVE_TTL - WaveTick

\* the green wave of incident e is activated in this step
GreenWaveStep(e) == last'.op = "green_wave" /\ last'.e = e

\* a red incident with a dispatched vehicle of known position
RedWithLocatedResource(e) ==
  /\ em[e].code = "rojo"
  /\ \E i \in DOMAIN disp :
       disp[i].emergency = e /\ disp[i].vehicle # Null /\ VehicleLocated(disp[i].vehicle)

\* the activation succeeded, and a resource whose path has no catalog
\* intersection has an empty window list
SucceedsWithWindows(e) ==
  LET r == ActivateEmergencyGreenWave(e, DB, clock)
  IN  /\ r.success
      /\ em'[e].onda_verde
      /\ \A i \in DOMAIN r.results :
           IntersectionsOnRoute(r.results[i].vehicle, e) = <<>>
             => r.results[i].result.intersections = <<>>

\* C18: the green-wave activation of a red incident with a located dispatched
\* resource succeeds; a resource with no catalog intersection on its path has
\* an empty window list.
C18_ActivationNeverFails ==
  [][\A e \in Incidents :
       GreenWaveStep(e) /\ RedWithLocatedResource(e) => SucceedsWithWindows(e)]_vars

\* C18 for an incident with coordinates: the activation succeeds; a resource
\* with no catalog intersection on its path has an empty window list, its own
\* result is marked unsuccessful and no wave is registered for it.
C18_LocatedActivationSucceeds ==
  [][\A e \in Incidents :
       GreenWaveStep(e) /\ RedWithLocatedResource(e) /\ em[e].located
         => /\ SucceedsWithWindows(e)
            /\ LET r == ActivateEmergencyGreenWave(e, DB, clock)
               IN  \A i \in DOMAIN r.results :
                     IntersectionsOnRoute(r.results[i].vehicle, e) = <<>>
                       => /\ ~r.results[i].result.success
                          /\ (r.results[i].key \in DOMAIN waves'
                                => r.results[i].key \in DOMAIN waves)]_vars

C18_Witness ==
  /\ last.op = "green_wave"
  /\ em[last.e].code = "rojo" /\ em[last.e].located /\ em[last.e].onda_verde
  /\ \E i \in DOMAIN disp :
       disp[i].emergency = last.e /\ disp[i].vehicle # Null /\ VehicleLocated(disp[i].vehicle)
  /\ \A k \in DOMAIN waves : k[1] # last.e

\* the incidents that have a stored CalculatedRoute row, of any status
IncidentsWithRoutes ==
  {routes[i].emergency : i \in DOMAIN routes}

\* C19: a green wave is registered for an incident only when routes of the
\* incident are already stored.
C19_WaveOnlyAfterRoutes ==
  [][\A k \in DOMAIN waves' :
       k \notin DOMAIN waves => k[1] \in IncidentsWithRoutes]_vars

\* the cloud provider gave no usable answer
CloudFailed(in) == CloudClassify(in).kind # "dict"

\* C20: when the cloud provider fails in any way, classify_with_ai returns,
\* without raising, the rules layer's result marked fuente = local, with
\* tipo, codigo and a recursos list of at least one resource.
C20_FallbackHasResources ==
  (answer.phase = "answered" /\ CloudFailed(answer.input))
    => /\ ~answer.raised
       /\ answer.result.fuente = "local"
       /\ {"tipo", "codigo", "recursos"} \subseteq DOMAIN answer.result
       /\ Len(answer.result.recursos) >= 1

\* what holds of the fallback: it does not raise and returns the rules
\* layer's tipo and codigo marked local, with an empty recursos list
FallbackIsRulesLayer ==
  (answer.phase = "answered" /\ CloudFailed(answer.input))
    => /\ ~answer.raised
       /\ answer.result.fuente = "local"
       /\ answer.result.tipo = GetAiClassificationWithResponse(answer.input.description).tipo
       /\ answer.result.codigo = GetAiClassificationWithResponse(answer.input.description).codigo
       /\ answer.result.recursos = <<>>

SnapshotTaken ==
  /\ answer' # answer
  /\ answer'.call \in {"emergency_mobility_api", "real_time_tracking"}

SameRouteAgain(x, y) ==
  /\ answer.e = answer'.e
  /\ ~answer.frozen /\ ~answer'.frozen
  /\ answer.now <= answer'.now
  /\ x.row = y.row /\ x.resource = y.resource /\ x.calculated_at = y.calculated_at
  /\ x.route_status = y.route_status

\* C29: for a stored route of a non-resolved incident that is not re-planned,
\* the progress of successive snapshots stays within [0,1] and never
\* decreases as the clock advances, whatever the hour of each snapshot.
C29_ProgressNeverDecreases ==
  [][SnapshotTaken =>
       /\ \A y \in answer'.resources : 0 <= y.progress /\ y.progress <= UNIT
       /\ (answer.call = "emergency_mobility_api" /\ answer'.call = "emergency_mobility_api")
            => \A x \in answer.resources, y \in answer'.resources :
                 SameRouteAgain(x, y) => x.progress <= y.progress]_vars

ResolveStep(e) == served' # served /\ last'.op = "resolve" /\ last'.e = e

\* C24: a resolve leaves the vehicle and the agent of every dispatch of the
\* incident available with no target; a resource that a step takes from
\* available to en route has the location of the step's incident as target.
C24_FinishClearsTarget ==
  [][\A e \in Incidents :
       /\ ResolveStep(e) =>
            \A i \in DOMAIN disp :
              disp[i].emergency = e =>
                /\ disp[i].vehicle # Null =>
                     veh'[disp[i].vehicle] = [status |-> "disponible", target |-> Null]
                /\ disp[i].agent # Null =>
                     ag'[disp[i].agent] = [status |-> "disponible", target |-> Null]
       /\ (served' # served /\ last'.e = e) =>
            /\ \A v \in Vehicles :
                 veh[v].status = "disponible" /\ veh'[v].status = "en_ruta"
                   => veh'[v].target = Target(em'[e], e)
            /\ \A a \in Agents :
                 ag[a].status = "disponible" /\ ag'[a].status = "en_ruta"
                   => ag'[a].target = Target(em'[e], e)]_vars

\* the part of C24 the code keeps: the resources of the dispatches become
\* available, and a selected resource is aimed at the incident
ResolveFreesDispatched ==
  [][\A e \in Incidents :
       /\ ResolveStep(e) =>
            \A i \in DOMAIN disp :
              disp[i].emergency = e =>
                /\ disp[i].vehicle # Null => veh'[disp[i].vehicle].status = "disponible"
                /\ disp[i].agent # Null => ag'[disp[i].agent].status = "disponible"
       /\ (served' # served /\ last'.e = e) =>
            /\ \A v \in Vehicles :
                 veh[v].status = "disponible" /\ veh'[v].status = "en_ruta"
                   => veh'[v].target = Target(em'[e], e)
            /\ \A a \in Agents :
                 ag[a].status = "disponible" /\ ag'[a].status = "en_ruta"
                   => ag'[a].target = Target(em'[e], e)]_vars

\* vehicle v / agent a is the resource of a dispatch of an incident that is
\* not finished; a resource with a target is sent to the incident it targets
VehicleDispatched(v) ==
  \E i \in DOMAIN disp :
    /\ NonFinished(disp[i]) /\ disp[i].vehicle = v
    /\ veh[v].target \in {Null, disp[i].emergency}

AgentDispatched(a) ==
  \E i \in DOMAIN disp :
    /\ NonFinished(disp[i]) /\ disp[i].agent = a
    /\ ag[a].target \in {Null, disp[i].emergency}

\* C26: every vehicle and every agent that is en route is the vehicle or the
\* agent of a dispatch, not finished, of the incident it was sent to; so when
\* every incident is resolved no resource is en route.
C26_EnRouteHasDispatch ==
  /\ \A v \in Vehicles : veh[v].status = "en_ruta" => VehicleDispatched(v)
  /\ \A a \in Agents : ag[a].status = "en_ruta" => AgentDispatched(a)
  /\ (\A e \in Incidents : em[e].exists => em[e].status = "resuelta")
       => /\ \A v \in Vehicles : veh[v].status # "en_ruta"
          /\ \A a \in Agents : ag[a].status # "en_ruta"

\* C27: the assigned_vehicle of an incident is the vehicle of the dispatch
\* the incident has for its assigned_force.
C27_AssignedVehicleInDispatch ==
  \A e \in Incidents :
    em[e].exists /\ em[e].assigned_vehicle # Null =>
      \E i \in DOMAIN disp :
        /\ disp[i].emergency = e
        /\ disp[i].force = em[e].assigned_force
        /\ disp[i].vehicle = em[e].assigned_vehicle

\* C28: an incident with status asignada has a dispatch, and a step that
\* takes an incident from pendiente to asignada creates or updates a
\* dispatch of it.
C28_AssignedHasDispatch ==
  [][\A e \in Incidents :
       /\ em'[e].status = "asignada" => \E i \in DOMAIN disp' : disp'[i].emergency = e
       /\ (em[e].exists /\ em[e].status = "pendiente" /\ em'[e].status = "asignada")
            => DispatchesOf(e, disp') # DispatchesOf(e, disp)]_vars

\* C30: with activations and queries of the registry running at the same
\* time, no query fails, and no step takes a wave younger than the TTL out
\* of the registry.
C30_ConcurrentQueryKeepsWaves ==
  [][/\ (answer' # answer /\ answer'.call \in {"get_active_green_waves", "get_intersection_status"})
          => ~answer'.raised
     /\ \A k \in DOMAIN waves :
          clock - waves[k].created_at < WAVE_TTL => k \in DOMAIN waves']_vars

\* the two halves of C30
QueryNeverRaises ==
  answer.call \in {"get_active_green_waves", "get_intersection_status"} => ~answer.raised

YoungWaveStays ==
  [][\A k \in DOMAIN waves :
       clock - waves[k].created_at < WAVE_TTL => k \in DOMAIN waves']_vars

\* C25: the cache never holds more than ROUTING_CACHE_SIZE entries; an entry
\* that a call drops was used (stored or hit) no later than every entry that
\* stays; and whatever callers did to the dicts they were handed, a cached
\* entry has the contents it was stored with and a hit returns them.
C25_BoundedLruNoAlias ==
  [][/\ Len(optimizer'.cache) <= ROUTING_CACHE_SIZE
     /\ \A i \in DOMAIN optimizer.cache :
          (\A j \in DOMAIN optimizer'.cache : optimizer'.cache[j].key # optimizer.cache[i].key)
            => \A j \in DOMAIN optimizer.cache : optimizer.cache[i].used <= optimizer.cache[j].used
     /\ \A i \in DOMAIN optimizer'.cache :
          optimizer'.heap[optimizer'.cache[i].ref] = optimizer'.cache[i].stored
     /\ (answer' # answer /\ answer'.hit)
          => answer'.value = optimizer.cache[CachePosition(optimizer.cache, answer'.key)].stored]_vars

\* a hit on a key whose earlier result the caller changed, in a full cache
\* that has stored three routes and so dropped one
C25_Witness ==
  /\ answer.call = "get_best_route" /\ answer.hit
  /\ Len(optimizer.cache) = ROUTING_CACHE_SIZE
  /\ {optimizer.heap[r].provider : r \in DOMAIN optimizer.heap} = CacheOutcomes \ {"raised"}
  /\ \E r \in DOMAIN optimizer.heap :
       /\ r # answer.ref
       /\ optimizer.heap[r].changed
       /\ optimizer.heap[r].provider = answer.value.provider

====
